---- MODULE Spec2Model ----
(***************************************************************************)
(* A model of minject-rs: the suspended-spawn pipeline (process.rs), the   *)
(* injector and its remote memory (inject.rs), and the initializer         *)
(* trampoline generated by the initializer! macro (init.rs).               *)
(*                                                                         *)
(* Bytes are naturals 0..255, byte buffers are sequences of bytes, strings *)
(* are sequences of ASCII codes.  A pointer into the target is a record    *)
(* [base, off]: base numbers the VirtualAlloc(Ex) region, NULL has base 0. *)
(***************************************************************************)
EXTENDS Integers, Sequences, FiniteSets, TLC

VARIABLES
    tmem,       \* target memory: pointer -> object stored there
    regions,    \* live VirtualAlloc(Ex) regions of the target: base -> [size, exec]
    heapNext,   \* next region base the target's allocator hands out
    tr,         \* the activation of a generated trampoline (init.rs 96-134)
    cmd,        \* the Command being spawned: its modules (process.rs 311-321)
    sys,        \* target_arch of the build, the host, and the child's WOW64 state
    pc,         \* where spawn_inner / Injector::inject stands
    child,      \* the child process as the OS sees it
    guard,      \* the ProcessGuard local of spawn_inner
    childObj,   \* the Child value spawn returned
    ret,        \* what spawn_inner returned
    idx,        \* index of the module being injected
    code,       \* Injector._code and Injector.thread_proc
    rm,         \* remote_data, the per-call RemoteMemory of inject
    thr,        \* the remote thread of the current inject
    inj,        \* locals of Injector::inject: exit_code, param, its result
    injLastError, \* GetLastError() of the injecting thread
    handles,    \* kernel handles the injecting process holds open
    hc,         \* the Handle values made so far and the CloseHandle calls on them
    log,        \* history: what has been done to the child, in order
    ptab,       \* the parent's kernel handle table: handle -> [obj, inherit]
    su,         \* spawn_inner up to CreateProcessW: stdio setup, handle list
    cl,         \* make_command_line: program, arguments, the line built
    ev,         \* Command.env and the block make_envp builds from it
    ch,         \* a Child, its process and its pipes (wait, wait_with_output)
    hb,         \* a module builder, its handle arguments and what the target gets
    tk          \* get_thunk: its Once, the THUNK static and the calling threads

tgtVars == <<tmem, regions, heapNext>>
spawnVars == <<cmd, sys, pc, child, guard, childObj, ret, idx, code, rm, thr, inj,
               injLastError, handles, hc, log>>
extVars == <<tk>>
apiVars == <<ptab, su, cl, ev, ch, hb, extVars>>
vars == <<tmem, regions, heapNext, tr, cmd, sys, pc, child, guard, childObj, ret, idx,
          code, rm, thr, inj, injLastError, handles, hc, log, ptab, su, cl, ev, ch, hb, tk>>

----------------------------------------------------------------------------
(* Bounds of the model.                                                    *)

MaxArgs == 2
MaxBuf == 3
MaxModules == 2

----------------------------------------------------------------------------
(* Small helpers.                                                          *)

Take(s, n) == SubSeq(s, 1, n)
Drop(s, n) == SubSeq(s, n + 1, Len(s))

RECURSIVE SeqsUpTo(_, _)
SeqsUpTo(S, n) ==
    IF n = 0 THEN {<<>>}
    ELSE LET shorter == SeqsUpTo(S, n - 1)
         IN  shorter \cup {Append(s, x) : s \in {t \in shorter : Len(t) = n - 1}, x \in S}

NULL == [base |-> 0, off |-> 0]

(* The target's memory as the injector and the thunk reach it.            *)
NoMem == [x \in {} |-> <<>>]

\* VirtualFreeEx(process, base, 0, MEM_RELEASE): releases the region that
\* starts at p, and fails (ignored) when p is not the base of a region.
FreeMem(mem, p) ==
    IF p.off = 0 THEN [q \in {x \in DOMAIN mem : x.base # p.base} |-> mem[q]] ELSE mem
FreeRegions_never(regs, p) == regs

FreeRegions(regs, p) ==
    IF p.off = 0 THEN [b \in DOMAIN regs \ {p.base} |-> regs[b]] ELSE regs

Store(mem, p, obj) == [q \in DOMAIN mem \cup {p} |-> IF q = p THEN obj ELSE mem[q]]

\* slice::from_raw_parts / ReadProcessMemory of n bytes at p.
Readable(mem, p, n) == n = 0 \/ (p \in DOMAIN mem /\ Len(mem[p]) >= n)
ReadBytes(mem, p, n) == IF n = 0 THEN <<>> ELSE Take(mem[p], n)

----------------------------------------------------------------------------
(* The codec (bincode, as the crate calls it): fixed-width big-endian      *)
(* integers, u64 length prefixes, u32 enum tags, no framing between        *)
(* values.                                                                 *)

\* Integers of the model stay below 2^31; a decoded value past that is
\* Huge, which is larger than every length and every tag of the model.
Huge == 8388607 * 256 + 255

RECURSIVE write_be(_, _)
write_be(n, w) ==
    IF w = 0 THEN <<>> ELSE Append(write_be(n \div 256, w - 1), n % 256)

RECURSIVE read_be(_)
read_be(bs) ==
    IF bs = <<>> THEN 0
    ELSE LET hi == read_be(SubSeq(bs, 1, Len(bs) - 1))
         IN  IF hi > 8388607 THEN Huge ELSE hi * 256 + bs[Len(bs)]

\* Text of a decode error, as format!("{}", e) renders it ("EOF", "invalid").
DetailEof == <<69, 79, 70>>
DetailInvalid == <<105, 110, 118, 97, 108, 105, 100>>

ArgTypes == {"u8", "u16", "bool", "usize"}

Width(ty) ==
    CASE ty = "u8" -> 1
      [] ty = "u16" -> 2
      [] ty = "bool" -> 1
      [] ty = "usize" -> 8

\* serde::serialize of one value of type ty (a bool is 0 or 1).
serialize(ty, v) == write_be(v, Width(ty))

\* __deserialize: one value of type ty from the front of the reader.
deserialize_from(ty, bs) ==
    IF Len(bs) < Width(ty)
    THEN [ok |-> FALSE, val |-> 0, rest |-> bs, detail |-> DetailEof]
    ELSE IF ty = "bool" /\ bs[1] > 1
    THEN [ok |-> FALSE, val |-> 0, rest |-> Drop(bs, 1), detail |-> DetailInvalid]
    ELSE [ok |-> TRUE, val |-> read_be(Take(bs, Width(ty))),
          rest |-> Drop(bs, Width(ty)), detail |-> <<>>]

serialize_string(s) == write_be(Len(s), 8) \o s

deserialize_string(bs) ==
    IF Len(bs) < 8 THEN [ok |-> FALSE, val |-> <<>>, rest |-> bs]
    ELSE LET n == read_be(Take(bs, 8))
             body == Drop(bs, 8)
         IN  IF Len(body) < n THEN [ok |-> FALSE, val |-> <<>>, rest |-> body]
             ELSE IF \E k \in 1..n : body[k] > 127
             THEN [ok |-> FALSE, val |-> <<>>, rest |-> Drop(body, n)]
             ELSE [ok |-> TRUE, val |-> Take(body, n), rest |-> Drop(body, n)]

----------------------------------------------------------------------------
(* InitError (init.rs 15-22) and its wire format.                          *)

Panic(message) == [kind |-> "Panic", s1 |-> message, s2 |-> <<>>]
Argument(name, detail) == [kind |-> "Argument", s1 |-> name, s2 |-> detail]
TooManyArguments == [kind |-> "TooManyArguments", s1 |-> <<>>, s2 |-> <<>>]
NoError == [kind |-> "none", s1 |-> <<>>, s2 |-> <<>>]

serialize_InitError(e) ==
    CASE e.kind = "Panic" -> write_be(0, 4) \o serialize_string(e.s1)
      [] e.kind = "Argument" ->
            write_be(1, 4) \o serialize_string(e.s1) \o serialize_string(e.s2)
      [] e.kind = "TooManyArguments" -> write_be(2, 4)

\* serde::deserialize of an InitError from a byte slice; trailing bytes are
\* not looked at.
deserialize_InitError(bs) ==
    IF Len(bs) < 4 THEN [ok |-> FALSE, val |-> NoError]
    ELSE LET tag == read_be(Take(bs, 4))
             a == deserialize_string(Drop(bs, 4))
             b == deserialize_string(a.rest)
         IN  CASE tag = 0 ->
                    IF a.ok THEN [ok |-> TRUE, val |-> Panic(a.val)]
                    ELSE [ok |-> FALSE, val |-> NoError]
               [] tag = 1 ->
                    IF a.ok /\ b.ok THEN [ok |-> TRUE, val |-> Argument(a.val, b.val)]
                    ELSE [ok |-> FALSE, val |-> NoError]
               [] tag = 2 -> [ok |-> TRUE, val |-> TooManyArguments]
               [] OTHER -> [ok |-> FALSE, val |-> NoError]

----------------------------------------------------------------------------
(* The generated trampoline (init.rs 93-135) and __set_result (41-66).     *)

\* stringify!($arg_name) of the k-th parameter: "a1", "a2", ...
\* Every argument reported under the name of the first one.
ArgName_first(k) == <<97, 49>>

ArgName(k) == <<97, 48 + k>>

\* "assertion failed: !data.is_null()"
AssertMessage ==
    <<97, 115, 115, 101, 114, 116, 105, 111, 110, 32, 102, 97, 105, 108, 101, 100>>
\* "Box<Any>"
BoxAny == <<66, 111, 120, 60, 65, 110, 121, 62>>
\* "boom"
Boom == <<98, 111, 111, 109>>

\* What a panic carries: a &'static str, a String, or something else.
Payloads ==
    { [type |-> "str", text |-> Boom],
      [type |-> "String", text |-> Boom \o <<33>>],
      [type |-> "other", text |-> <<>>] }

NoPayload == [type |-> "none", text |-> <<>>]

\* The closure given to unwrap_or_else (init.rs 121-131).
panic_message_str_only(payload) ==
    IF payload.type = "str" THEN payload.text ELSE BoxAny

panic_message(payload) ==
    IF payload.type = "str" THEN payload.text
    ELSE IF payload.type = "String" THEN payload.text
    ELSE BoxAny

Ok == [ok |-> TRUE, err |-> NoError]
Err(e) == [ok |-> FALSE, err |-> e]

TrIdle ==
    [pc |-> "idle", caller |-> "none", outNull |-> FALSE, sig |-> <<>>,
     inData |-> NULL, inSize |-> 0, data |-> NULL, size |-> 0,
     cursor |-> <<>>, i |-> 0, args |-> <<>>, result |-> Ok,
     invoked |-> 0, caught |-> FALSE, payload |-> NoPayload, ret |-> -1]

\* A call of the exported function with *__data = data and *__size = size.
TrCall(caller, outNull, sig, data, size) ==
    [TrIdle EXCEPT !.pc = "entry", !.caller = caller, !.outNull = outNull,
                   !.sig = sig, !.inData = data, !.inSize = size,
                   !.data = data, !.size = size]

\* init.rs 115-117, then 99-103 inside the recover closure.
\* Called directly, or on a remote thread that is still running.
TrampRuns == tr.caller = "direct" \/ (thr.state = "running" /\ child.alive)

TrampEnter ==
    /\ tr.pc = "entry"
    /\ TrampRuns
    /\ tr.outNull \/ tr.data = NULL \/ Readable(tmem, tr.data, tr.size)
    /\ tr' = IF tr.outNull
             THEN [tr EXCEPT !.pc = "returned", !.ret = 0]
             ELSE IF tr.data = NULL
             THEN [tr EXCEPT !.pc = "set_result", !.caught = TRUE,
                             !.payload = [type |-> "str", text |-> AssertMessage],
                             !.result = Err(Panic(panic_message(
                                 [type |-> "str", text |-> AssertMessage])))]
             ELSE [tr EXCEPT !.pc = "deserialize", !.i = 1,
                             !.cursor = ReadBytes(tmem, tr.data, tr.size)]
    /\ UNCHANGED <<tmem, regions, heapNext>>
    /\ UNCHANGED spawnVars
    /\ UNCHANGED apiVars

\* init.rs 104-106: the next declared argument.
TrampDeserialize ==
    /\ tr.pc = "deserialize"
    /\ TrampRuns
    /\ tr.i <= Len(tr.sig)
    /\ LET r == deserialize_from(tr.sig[tr.i], tr.cursor)
       IN  tr' = IF r.ok
                 THEN [tr EXCEPT !.i = tr.i + 1, !.cursor = r.rest,
                                 !.args = Append(tr.args, r.val)]
                 ELSE [tr EXCEPT !.pc = "set_result",
                                 !.result = Err(Argument(ArgName(tr.i), r.detail))]
    /\ UNCHANGED <<tmem, regions, heapNext>>
    /\ UNCHANGED spawnVars
    /\ UNCHANGED apiVars

\* init.rs 108-110: Read::read of one more byte returns Ok(0).
at_end_unchecked(cursor) == TRUE

at_end(cursor) == cursor = <<>>

\* init.rs 108-112: one more byte is read after the last argument.
TrampCheckEnd ==
    /\ tr.pc = "deserialize"
    /\ TrampRuns
    /\ tr.i > Len(tr.sig)
    /\ tr' = IF at_end(tr.cursor)
             THEN [tr EXCEPT !.pc = "invoke"]
             ELSE [tr EXCEPT !.pc = "set_result", !.result = Err(TooManyArguments)]
    /\ UNCHANGED <<tmem, regions, heapNext>>
    /\ UNCHANGED spawnVars
    /\ UNCHANGED apiVars

\* init.rs 109 (__inner) and 119-131 (recover): the user function returns
\* or unwinds with some payload.
TrampInvoke ==
    /\ tr.pc = "invoke"
    /\ TrampRuns
    /\ \/ tr' = [tr EXCEPT !.pc = "set_result", !.invoked = tr.invoked + 1,
                            !.result = Ok]
       \/ \E payload \in Payloads :
             tr' = [tr EXCEPT !.pc = "set_result", !.invoked = tr.invoked + 1,
                              !.caught = TRUE, !.payload = payload,
                              !.result = Err(Panic(panic_message(payload)))]
    /\ UNCHANGED <<tmem, regions, heapNext>>
    /\ UNCHANGED spawnVars
    /\ UNCHANGED apiVars

\* __set_result (init.rs 41-66): the out-parameters and the return value,
\* given whether serialization and VirtualAlloc succeed.
set_result_keeps_incoming(result, serOk, allocOk, data, size) ==
    IF result.ok THEN [ret |-> 1, data |-> NULL, size |-> 0, alloc |-> FALSE]
    ELSE IF serOk /\ allocOk
    THEN [ret |-> 0, data |-> [base |-> heapNext, off |-> 0],
          size |-> Len(serialize_InitError(result.err)), alloc |-> TRUE]
    ELSE [ret |-> 0, data |-> data, size |-> size, alloc |-> FALSE]

set_result(result, serOk, allocOk, data, size) ==
    IF result.ok THEN [ret |-> 1, data |-> NULL, size |-> 0, alloc |-> FALSE]
    ELSE IF serOk /\ allocOk
    THEN [ret |-> 0, data |-> [base |-> heapNext, off |-> 0],
          size |-> Len(serialize_InitError(result.err)), alloc |-> TRUE]
    ELSE [ret |-> 0, data |-> NULL, size |-> 0, alloc |-> FALSE]

TrampSetResult ==
    /\ tr.pc = "set_result"
    /\ TrampRuns
    /\ \E serOk, allocOk \in BOOLEAN :
         LET out == set_result(tr.result, serOk, allocOk, tr.data, tr.size)
         IN  /\ tr' = [tr EXCEPT !.pc = "returned", !.ret = out.ret,
                                 !.data = out.data, !.size = out.size]
             /\ IF out.alloc
                THEN /\ tmem' = [p \in DOMAIN tmem \cup {out.data} |->
                                   IF p = out.data
                                   THEN serialize_InitError(tr.result.err)
                                   ELSE tmem[p]]
                     /\ regions' = [b \in DOMAIN regions \cup {heapNext} |->
                                      IF b = heapNext
                                      THEN [size |-> out.size, exec |-> FALSE]
                                      ELSE regions[b]]
                     /\ heapNext' = heapNext + 1
                ELSE UNCHANGED <<tmem, regions, heapNext>>
    /\ UNCHANGED spawnVars
    /\ UNCHANGED apiVars


----------------------------------------------------------------------------
(* Errors (inject.rs 326-341, 380-399).                                    *)

InjErr(kind, n) == [kind |-> kind, code |-> n, some |-> FALSE, init |-> NoError]
NoInjErr == InjErr("none", 0)
Io(e) == InjErr("Io", e)
Bitness == InjErr("Bitness", 0)
LoadFailed(e) == InjErr("LoadFailed", e)
InitNotFound(e) == InjErr("InitNotFound", e)
InitErrorNone == InjErr("InitError", 0)
InitErrorSome(e) == [kind |-> "InitError", code |-> 0, some |-> TRUE, init |-> e]
Deserialize == InjErr("Deserialize", 0)
UnexpectedExitCode(c) == InjErr("UnexpectedExitCode", c)

InjOk == [ok |-> TRUE, err |-> NoInjErr]
InjFail(e) == [ok |-> FALSE, err |-> e]

\* io::Error: an OS error number, or kind Other wrapping an inject Error.
OsError(e) == [kind |-> "Os", code |-> e, inner |-> NoInjErr]
\* A conversion that keeps the kind Other and loses the Error it wraps.
into_io_Error_unwrapped(error) ==
    IF error.kind = "Io" THEN OsError(error.code)
    ELSE [kind |-> "Other", code |-> 0, inner |-> NoInjErr]

\* impl From<Error> for io::Error (inject.rs 392-399).
into_io_Error(error) ==
    IF error.kind = "Io" THEN OsError(error.code)
    ELSE [kind |-> "Other", code |-> 0, inner |-> error]

\* Error numbers the injecting thread's failed OS calls leave behind, and
\* the ones the thunk reads with GetLastError in the target.
OsErrors == {5, 8}
TargetErrors == {126, 127}

\* param.last_error as i32 (inject.rs 447-448); the error numbers of the
\* model are below 2^31, where the cast keeps the value.
as_i32(dword) == dword

SUCCESS == 0
ERROR_LOAD_FAILED == 1
ERROR_INIT_NOT_FOUND == 2
ERROR_INIT_FAILED == 3
\* Exit codes of a remote thread that did not leave through the thunk.
CrashCodes == {4, 259}

----------------------------------------------------------------------------
(* Modules (inject.rs 132-227) and the Command's configurations.           *)

Serialized(data) == [kind |-> "Serialized", data |-> data, handle |-> 0]
HandleArg(h) == [kind |-> "Handle", data |-> <<>>, handle |-> h]

\* ModuleBuilder::new / unwrap: the path ends with a zero code unit.
ModuleNoInit(path) ==
    [path |-> Append(path, 0), hasInit |-> FALSE, init |-> <<>>, args |-> <<>>]
\* ModuleBuilder::init / ModuleBuilderWithInit::unwrap: the name ends with 0.
ModuleWithInit(path, name, args) ==
    [path |-> Append(path, 0), hasInit |-> TRUE, init |-> Append(name, 0),
     args |-> args]

ModulePool ==
    { ModuleNoInit(<<100>>),
      ModuleWithInit(<<100>>, <<105>>, <<>>),
      ModuleWithInit(<<100, 101>>, <<105>>,
                     <<Serialized(serialize("u8", 1)), Serialized(serialize("u16", 2))>>),
      ModuleWithInit(<<100>>, <<105, 106>>, <<HandleArg(1)>>) }

\* Signatures of the initializers the injected modules may export.
SigPool == { <<>>, <<"u8", "u16">>, <<"usize">>, <<"bool">> }

\* target_arch of the build, whether GetNativeSystemInfo reports a 32-bit
\* Intel host, and whether the child runs under WOW64.
Systems ==
    { [arch |-> "x86_64", hostIntel |-> FALSE, wow64 |-> FALSE],
      [arch |-> "x86_64", hostIntel |-> FALSE, wow64 |-> TRUE],
      [arch |-> "x86", hostIntel |-> TRUE, wow64 |-> FALSE],
      [arch |-> "x86", hostIntel |-> FALSE, wow64 |-> TRUE],
      [arch |-> "x86", hostIntel |-> FALSE, wow64 |-> FALSE] }

InjectorBits(s) == IF s.arch = "x86" THEN 32 ELSE 64
TargetBits(s) == IF s.hostIntel \/ s.wow64 THEN 32 ELSE 64

PtrSize(s) == IF s.arch = "x86" THEN 4 ELSE 8
\* size_of and align_of of the repr(C) ThreadParam (inject.rs 309-317).
SizeOfThreadParam(s) == IF s.arch = "x86" THEN 20 ELSE 40
AlignOfThreadParam(s) == PtrSize(s)

----------------------------------------------------------------------------
(* Remote memory (inject.rs 18-128).                                       *)

\* A write that advances the offset by one byte less than it wrote.
write_inner_overlapping(offset, size, align) ==
    LET at == offset + ((align - (offset % align)) % align)
    IN  [at |-> at, offset |-> IF size = 0 THEN offset ELSE at + size - 1]

\* RemoteMemory::write_inner (58-78): where the value lands and the offset
\* afterwards; a zero-sized write leaves the offset alone.
write_inner(offset, size, align) ==
    LET at == offset + ((align - (offset % align)) % align)
    IN  [at |-> at, offset |-> IF size = 0 THEN offset ELSE at + size]


\* The value DuplicateHandle stores for handle h duplicated into the target.
DupValue(h) == 512 + 4 * h

\* Module::copy_to_process 240-256: the argument stream.
RECURSIVE serialized_args(_)
serialized_args(args) ==
    IF args = <<>> THEN <<>>
    ELSE LET arg == Head(args)
         IN  (IF arg.kind = "Serialized" THEN arg.data
              ELSE serialize("usize", DupValue(arg.handle)))
                 \o serialized_args(Tail(args))

\* Module::copy_to_process 272-279: null without an initializer.
init_name_ptr_always(m, p) == p

init_name_ptr(m, p) == IF m.hasInit THEN p ELSE NULL

\* Module::copy_to_process 261-289: the size asked for and the layout.
copy_to_process(m, s, base) ==
    LET args == IF m.hasInit THEN serialized_args(m.args) ELSE <<>>
        size == 2 * Len(m.path) + SizeOfThreadParam(s)
                  + (IF m.hasInit THEN Len(m.init) + Len(args) ELSE 0)
        w1 == write_inner(0, 2 * Len(m.path), 2)
        w2 == write_inner(w1.offset, Len(m.init), 1)
        w3 == write_inner(w2.offset, Len(args), 1)
        w4 == write_inner(IF m.hasInit THEN w3.offset ELSE w1.offset,
                          SizeOfThreadParam(s), AlignOfThreadParam(s))
        ptr(o) == [base |-> base, off |-> o]
        param == [module_path |-> ptr(w1.at),
                  init_name |-> init_name_ptr(m, ptr(w2.at)),
                  user_data |-> IF m.hasInit THEN ptr(w3.at) ELSE NULL,
                  user_len |-> IF m.hasInit THEN Len(args) ELSE 0,
                  last_error |-> 0]
    IN  [size |-> size, args |-> args, param |-> param,
         paramPtr |-> ptr(w4.at), offset |-> w4.offset]

\* The thunk image: code, zero padding, four pointers (inject.rs 533-542).
ThunkCodeLen == 5
RoundUp(n, a) == n + ((a - (n % a)) % a)
ThunkSize(s) == RoundUp(ThunkCodeLen, PtrSize(s)) + 4 * PtrSize(s)

\* check_same_bitness (inject.rs 467-499); callOk: IsWow64Process succeeds.
check_same_bitness_inverted(s, callOk) ==
    IF s.arch = "x86" /\ s.hostIntel THEN "Ok"
    ELSE IF ~callOk THEN "Io"
    ELSE IF s.arch = "x86" THEN (IF s.wow64 THEN "Bitness" ELSE "Ok")
    ELSE (IF s.wow64 THEN "Ok" ELSE "Bitness")

check_same_bitness(s, callOk) ==
    IF s.arch = "x86" /\ s.hostIntel THEN "Ok"
    ELSE IF ~callOk THEN "Io"
    ELSE IF s.arch = "x86" THEN (IF s.wow64 THEN "Ok" ELSE "Bitness")
    ELSE (IF s.wow64 THEN "Bitness" ELSE "Ok")

----------------------------------------------------------------------------
(* Command::spawn_inner (process.rs 418-502) and Injector (inject.rs       *)
(* 403-465), one action per OS call that can fail.                         *)

Child0 == [exists |-> FALSE, alive |-> FALSE, resumed |-> FALSE, termReq |-> 0]
Guard0 == [state |-> "none", handle |-> "none"]
ChildObj0 == [state |-> "none", process |-> "none"]
Ret0 == [kind |-> "none", err |-> OsError(0)]
Code0 == [live |-> FALSE, base |-> 0]
Rm0 == [live |-> FALSE, base |-> 0, offset |-> 0, size |-> 0]
\* exitCode is STILL_ACTIVE (259) until the thread exits; loaded and stored
\* record what the loader reported and what the thunk wrote to last_error.
Thr0 ==
    [state |-> "none", pc |-> "none", exitCode |-> 259, param |-> NULL, k |-> 0,
     loaded |-> FALSE, stored |-> 0]
NoParam ==
    [module_path |-> NULL, init_name |-> NULL, user_data |-> NULL, user_len |-> 0,
     last_error |-> 0]
Inj0 ==
    [param |-> NULL, exit_code |-> -1, rparam |-> NoParam, result |-> InjOk,
     readAt |-> NULL, readLen |-> 0, readBytes |-> <<>>, dispatched |-> FALSE]

Ev(e, k) == [e |-> e, k |-> k]
CodePtr == [base |-> code.base, off |-> 0]
RmPtr == [base |-> rm.base, off |-> 0]

\* The Handle values spawn and inject make: the process and primary-thread
\* handles of CreateProcessW, the remote thread of module k, the child side
\* of stream i, and argument j of module k kept in the Module.
ProcessHandle == [h |-> "hProcess", k |-> 0, j |-> 0]
ThreadHandle == [h |-> "hThread", k |-> 0, j |-> 0]
RemoteThreadHandle(k) == [h |-> "hRemote", k |-> k, j |-> 0]
StdioHandle(i) == [h |-> "stdio", k |-> i, j |-> 0]
StdioHandles == {StdioHandle(i) : i \in 1..3}
StoredHandles(c) ==
    {x \in [h : {"arg"}, k : 1..Len(c.modules), j : 1..MaxArgs] :
        /\ x.j <= Len(c.modules[x.k].args)
        /\ c.modules[x.k].args[x.j].kind = "Handle"}

Hc0 == [opened |-> {}, closed |-> {}, twice |-> {}, command |-> "live"]

\* Handle::new (handle.rs 13-16) for each handle of S.
Handle_new(c, S) == [c EXCEPT !.opened = @ \cup S]

\* A Handle that is dropped without CloseHandle.
Handle_drop_forgotten(c, S) == c

\* impl Drop for Handle (handle.rs 42-48) for each Handle of S: CloseHandle.
Handle_drop(c, S) ==
    [c EXCEPT !.closed = @ \cup S, !.twice = @ \cup (S \cap c.closed)]

\* impl Drop for ProcessGuard (process.rs 35-39): TerminateProcess(handle, 1).
ProcessGuard_drop_forgotten(c) == c

ProcessGuard_drop(c) == [c EXCEPT !.alive = FALSE, !.termReq = @ + 1]

\* ProcessGuard::release (process.rs 28-32): the handle is taken out and the
\* guard is forgotten, so its Drop does not run.
release_then_drop(g) ==
    [guard |-> [g EXCEPT !.state = "dropped"], handle |-> g.handle, drops |-> TRUE]

release(g) ==
    [guard |-> [g EXCEPT !.state = "released"], handle |-> g.handle, drops |-> FALSE]

\* A module list that is taken to hold something whatever it holds.
is_empty_never(modules) == FALSE

\* self.modules.is_empty() (process.rs 481).
is_empty(modules) == modules = <<>>

\* dwCreationFlags of CreateProcessW (process.rs 459).
flags ==
    {"CREATE_UNICODE_ENVIRONMENT", "CREATE_SUSPENDED", "EXTENDED_STARTUPINFO_PRESENT"}

\* try!(injector.inject(module)) (process.rs 484): only Ok goes on.
try_ignored(result) == TRUE

try(result) == result.ok

\* Handle::wait (handle.rs 34-39): WaitForSingleObject(INFINITE) returns
\* without WAIT_FAILED once the thread is signaled, that is, has exited.
wait_returns_at_once(state) == TRUE

wait(state) == state = "exited"

\* An error return of spawn_inner after the child exists: the locals are
\* dropped in reverse order, injector (its code region), thread handle,
\* ProcessGuard (process.rs 35-39: TerminateProcess, then the handle).
SpawnFails(e, lg) ==
    /\ ret' = [kind |-> "Err", err |-> e]
    /\ pc' = "done"
    /\ code' = [code EXCEPT !.live = FALSE]
    /\ tmem' = IF code.live THEN FreeMem(tmem, CodePtr) ELSE tmem
    /\ regions' = IF code.live THEN FreeRegions(regions, CodePtr) ELSE regions
    /\ child' = ProcessGuard_drop(child)
    /\ guard' = [guard EXCEPT !.state = "dropped"]
    /\ handles' = handles \ {"hProcess", "hThread"}
    /\ hc' = Handle_drop(hc, {ThreadHandle, ProcessHandle} \cup StdioHandles)
    /\ thr' = IF thr.state = "running" THEN [thr EXCEPT !.state = "killed"] ELSE thr
    /\ log' = lg \o (IF code.live THEN <<Ev("free", 0)>> ELSE <<>>)
                 \o <<Ev("terminate", 0)>>

\* process.rs 448-479: the child-side stdio handles (a try! that fails
\* after n of them drops those n), CreateProcessW with CREATE_SUSPENDED,
\* then the guard and the thread handle.
CreateProcessW ==
    /\ pc = "start"
    /\ \/ \E e \in OsErrors, n \in 0..3 :
            LET made == {StdioHandle(i) : i \in 1..n}
            IN  /\ ret' = [kind |-> "Err", err |-> OsError(e)]
                /\ injLastError' = e
                /\ pc' = "done"
                /\ hc' = Handle_drop(Handle_new(hc, made), made)
                /\ UNCHANGED <<child, guard, handles, log>>
       \/ /\ child' = [child EXCEPT !.exists = TRUE, !.alive = TRUE,
                                      !.resumed = "CREATE_SUSPENDED" \notin flags]
          /\ guard' = [state |-> "armed", handle |-> "hProcess"]
          /\ handles' = handles \cup {"hProcess", "hThread"}
          /\ hc' = Handle_new(hc, StdioHandles \cup {ProcessHandle, ThreadHandle})
          /\ log' = Append(log, Ev("create_suspended", 0))
          /\ pc' = IF is_empty(cmd.modules) THEN "resume" ELSE "injector_new"
          /\ UNCHANGED <<ret, injLastError>>
    /\ UNCHANGED <<tgtVars, tr, cmd, sys, childObj, idx, code, rm, thr, inj>>
    /\ UNCHANGED apiVars

\* Injector::new (inject.rs 410-422).
InjectorNew ==
    /\ pc = "injector_new"
    /\ \E out \in {"call_failed", "alloc_failed", "write_failed", "ok"}, e \in OsErrors :
         LET c == check_same_bitness(sys, out # "call_failed")
         IN  /\ out = "call_failed" => c = "Io"
             /\ CASE c = "Io" ->
                       /\ SpawnFails(into_io_Error(Io(e)), log)
                       /\ injLastError' = e
                       /\ UNCHANGED <<heapNext, idx>>
                  [] c = "Bitness" ->
                       /\ SpawnFails(into_io_Error(Bitness), log)
                       /\ UNCHANGED <<heapNext, idx, injLastError>>
                  [] c = "Ok" /\ out = "alloc_failed" ->
                       /\ SpawnFails(OsError(e), log)
                       /\ injLastError' = e
                       /\ UNCHANGED <<heapNext, idx>>
                  [] c = "Ok" /\ out = "write_failed" ->
                       /\ SpawnFails(OsError(e),
                                     log \o <<Ev("alloc", 0), Ev("free", 0)>>)
                       /\ injLastError' = e
                       /\ heapNext' = heapNext + 1
                       /\ UNCHANGED idx
                  [] c = "Ok" /\ out = "ok" ->
                       /\ code' = [live |-> TRUE, base |-> heapNext]
                       /\ heapNext' = heapNext + 1
                       /\ regions' = Store(regions, heapNext,
                                           [size |-> ThunkSize(sys), exec |-> TRUE])
                       /\ tmem' = Store(tmem, [base |-> heapNext, off |-> 0], <<>>)
                       /\ log' = log \o <<Ev("alloc", 0), Ev("write", 0)>>
                       /\ idx' = 1
                       /\ pc' = "copy"
                       /\ UNCHANGED <<ret, child, guard, handles, hc, thr, injLastError>>
    /\ UNCHANGED <<tr, cmd, sys, childObj, rm, inj>>
    /\ UNCHANGED apiVars

\* A return of Injector::inject after copy_to_process: thread and
\* remote_data are dropped (handle.rs 42-48, inject.rs 124-128).
InjectReturnsFrom(mem, regs, lg) ==
    /\ pc' = "inject_ret"
    /\ rm' = [rm EXCEPT !.live = FALSE]
    /\ tmem' = IF rm.live THEN FreeMem(mem, RmPtr) ELSE mem
    /\ regions' = IF rm.live THEN FreeRegions(regs, RmPtr) ELSE regs
    /\ handles' = handles \ {"hRemote"}
    /\ hc' = IF "hRemote" \in handles
             THEN Handle_drop(hc, {RemoteThreadHandle(idx)}) ELSE hc
    /\ log' = lg \o (IF rm.live THEN <<Ev("free", idx)>> ELSE <<>>)

InjectReturns(result) ==
    /\ inj' = [inj EXCEPT !.result = result]
    /\ InjectReturnsFrom(tmem, regions, log)

HasHandleArg(m) == \E k \in 1..Len(m.args) : m.args[k].kind = "Handle"

\* inject.rs 425: Module::copy_to_process (236-292).
InjectCopy ==
    /\ pc = "copy"
    /\ LET m == cmd.modules[idx]
           lay == copy_to_process(m, sys, heapNext)
       IN  \/ \E out \in {"dup_failed", "alloc_failed"}, e \in OsErrors :
                /\ out = "dup_failed" => HasHandleArg(m)
                /\ inj' = [Inj0 EXCEPT !.result = InjFail(Io(e))]
                /\ injLastError' = e
                /\ pc' = "inject_ret"
                /\ UNCHANGED <<tgtVars, rm, log>>
           \/ \E e \in OsErrors :
                /\ inj' = [Inj0 EXCEPT !.result = InjFail(Io(e))]
                /\ injLastError' = e
                /\ pc' = "inject_ret"
                /\ heapNext' = heapNext + 1
                /\ log' = log \o <<Ev("alloc", idx), Ev("free", idx)>>
                /\ UNCHANGED <<tmem, regions, rm>>
           \/ /\ inj' = [Inj0 EXCEPT !.param = lay.paramPtr]
              /\ rm' = [live |-> TRUE, base |-> heapNext, offset |-> lay.offset,
                        size |-> lay.size]
              /\ heapNext' = heapNext + 1
              /\ regions' = Store(regions, heapNext, [size |-> lay.size, exec |-> FALSE])
              /\ tmem' =
                   LET m1 == Store(tmem, lay.param.module_path, m.path)
                       m2 == IF m.hasInit THEN Store(m1, lay.param.init_name, m.init)
                             ELSE m1
                       m3 == IF lay.args # <<>>
                             THEN Store(m2, lay.param.user_data, lay.args) ELSE m2
                   IN  Store(m3, lay.paramPtr, lay.param)
              /\ log' = log \o <<Ev("alloc", idx), Ev("write", idx)>>
              /\ pc' = "create_thread"
              /\ UNCHANGED injLastError
    /\ UNCHANGED <<tr, cmd, sys, child, guard, childObj, ret, idx, code, thr, handles, hc>>
    /\ UNCHANGED apiVars

\* inject.rs 427-435: CreateRemoteThread at the thunk with the parameter block.
InjectCreateThread ==
    /\ pc = "create_thread"
    /\ \/ \E e \in OsErrors :
            /\ InjectReturns(InjFail(Io(e)))
            /\ injLastError' = e
            /\ UNCHANGED thr
       \/ /\ thr' = [Thr0 EXCEPT !.state = "running", !.pc = "load",
                                    !.param = inj.param, !.k = idx]
          /\ handles' = handles \cup {"hRemote"}
          /\ hc' = Handle_new(hc, {RemoteThreadHandle(idx)})
          /\ log' = Append(log, Ev("thread_create", idx))
          /\ pc' = "wait"
          /\ UNCHANGED <<tgtVars, rm, inj, injLastError>>
    /\ UNCHANGED <<heapNext, tr, cmd, sys, child, guard, childObj, ret, idx, code>>
    /\ UNCHANGED apiVars

\* inject.rs 436: thread.wait() (handle.rs 34-39), WaitForSingleObject(INFINITE).
InjectWait ==
    /\ pc = "wait"
    /\ \/ \E e \in OsErrors :
            /\ InjectReturns(InjFail(Io(e)))
            /\ injLastError' = e
       \/ /\ wait(thr.state)
          /\ pc' = "exit_code"
          /\ UNCHANGED <<tgtVars, rm, inj, injLastError, handles, hc, log>>
    /\ UNCHANGED <<heapNext, tr, cmd, sys, child, guard, childObj, ret, idx, code, thr>>
    /\ UNCHANGED apiVars

\* inject.rs 438-441: GetExitCodeThread.
InjectGetExitCode ==
    /\ pc = "exit_code"
    /\ \/ \E e \in OsErrors :
            /\ InjectReturns(InjFail(Io(e)))
            /\ injLastError' = e
       \/ /\ inj' = [inj EXCEPT !.exit_code = thr.exitCode]
          /\ log' = Append(log, Ev("exit_code_read", idx))
          /\ pc' = "read_param"
          /\ UNCHANGED <<tgtVars, rm, injLastError, handles, hc>>
    /\ UNCHANGED <<heapNext, tr, cmd, sys, child, guard, childObj, ret, idx, code, thr>>
    /\ UNCHANGED apiVars

\* inject.rs 443: remote_data.read(param).
InjectReadParam ==
    /\ pc = "read_param"
    /\ \/ \E e \in OsErrors :
            /\ InjectReturns(InjFail(Io(e)))
            /\ injLastError' = e
       \/ /\ inj' = [inj EXCEPT !.rparam = tmem[inj.param]]
          /\ pc' = "dispatch"
          /\ UNCHANGED <<tgtVars, rm, injLastError, handles, hc, log>>
    /\ UNCHANGED <<heapNext, tr, cmd, sys, child, guard, childObj, ret, idx, code, thr>>
    /\ UNCHANGED apiVars

\* inject.rs 445-463: the exit code decides the result.  readOk: the
\* ReadProcessMemory of read_vec succeeds; e: the error it leaves otherwise.
last_error_of_injector(param, own) == own

\* param.last_error as i32 (inject.rs 447-448), not last_os_error().
last_error_of(param, own) == as_i32(param.last_error)

\* inject.rs 452: no payload to read.
payload_absent_null_only(param) == param.user_data = NULL

payload_absent(param) == param.user_data = NULL \/ param.user_len = 0

dispatch(exit_code, param, mem, readOk, e) ==
    CASE exit_code = SUCCESS -> InjOk
      [] exit_code = ERROR_LOAD_FAILED ->
            InjFail(LoadFailed(last_error_of(param, injLastError)))
      [] exit_code = ERROR_INIT_NOT_FOUND ->
            InjFail(InitNotFound(last_error_of(param, injLastError)))
      [] exit_code = ERROR_INIT_FAILED ->
            IF payload_absent(param)
            THEN InjFail(InitErrorNone)
            ELSE IF ~(readOk /\ Readable(mem, param.user_data, param.user_len))
            THEN InjFail(Io(e))
            ELSE LET d == deserialize_InitError(
                              ReadBytes(mem, param.user_data, param.user_len))
                 IN  IF d.ok THEN InjFail(InitErrorSome(d.val))
                     ELSE InjFail(Deserialize)
      [] OTHER -> InjFail(UnexpectedExitCode(exit_code))

\* Whether inject builds the from_raw view of the error payload (455).
ReadsPayload(exit_code, param) ==
    exit_code = ERROR_INIT_FAILED /\ ~payload_absent(param)

InjectDispatch ==
    /\ pc = "dispatch"
    /\ LET p == inj.rparam
           views == ReadsPayload(inj.exit_code, p)
       IN  \/ /\ ~views
              /\ inj' = [inj EXCEPT
                           !.result = dispatch(inj.exit_code, p, tmem, TRUE, 0),
                           !.dispatched = TRUE]
              /\ InjectReturnsFrom(tmem, regions, log)
              /\ UNCHANGED injLastError
           \/ /\ views
              /\ \/ /\ Readable(tmem, p.user_data, p.user_len)
                    /\ inj' = [inj EXCEPT
                                 !.result = dispatch(inj.exit_code, p, tmem, TRUE, 0),
                                 !.dispatched = TRUE,
                                 !.readAt = p.user_data,
                                 !.readLen = p.user_len,
                                 !.readBytes = ReadBytes(tmem, p.user_data, p.user_len)]
                    /\ UNCHANGED injLastError
                 \/ \E e \in OsErrors :
                       /\ inj' = [inj EXCEPT
                                    !.result = dispatch(inj.exit_code, p, tmem, FALSE, e),
                                    !.dispatched = TRUE]
                       /\ injLastError' = e
              \* the from_raw view is dropped: VirtualFreeEx on its pointer
              /\ InjectReturnsFrom(
                     FreeMem(tmem, p.user_data), FreeRegions(regions, p.user_data),
                     IF p.user_data.off = 0 /\ p.user_data.base \in DOMAIN regions
                     THEN Append(log, Ev("free_payload", idx)) ELSE log)
    /\ UNCHANGED <<heapNext, tr, cmd, sys, child, guard, childObj, ret, idx, code, thr>>
    /\ UNCHANGED apiVars

\* process.rs 483-486: try!(injector.inject(module)) and the end of the
\* for loop; the injector is dropped when the if block is left.
Returned == Ev(IF inj.result.ok THEN "inject_ok" ELSE "inject_err", idx)

SpawnAfterInject ==
    /\ pc = "inject_ret"
    /\ IF try(inj.result)
       THEN /\ IF idx < Len(cmd.modules)
               THEN /\ idx' = idx + 1
                    /\ pc' = "copy"
                    /\ log' = Append(log, Returned)
                    /\ UNCHANGED <<tgtVars, code>>
               ELSE /\ pc' = "resume"
                    /\ code' = [code EXCEPT !.live = FALSE]
                    /\ tmem' = FreeMem(tmem, CodePtr)
                    /\ regions' = FreeRegions(regions, CodePtr)
                    /\ log' = log \o <<Returned, Ev("free", 0)>>
                    /\ UNCHANGED <<heapNext, idx>>
            \* the exited thread and its trampoline activation are gone
            /\ thr' = Thr0
            /\ tr' = TrIdle
            /\ UNCHANGED <<ret, child, guard, handles, hc>>
       ELSE /\ SpawnFails(into_io_Error(inj.result.err), Append(log, Returned))
            /\ UNCHANGED <<heapNext, idx, tr>>
    /\ UNCHANGED <<cmd, sys, childObj, rm, inj, injLastError>>
    /\ UNCHANGED apiVars

\* process.rs 488-501: ResumeThread, drop(thread), process.release(), Child.
ResumeThread ==
    /\ pc = "resume"
    /\ \/ \E e \in OsErrors :
            /\ SpawnFails(OsError(e), log)
            /\ injLastError' = e
            /\ UNCHANGED childObj
       \/ /\ child' = IF release(guard).drops
                      THEN ProcessGuard_drop([child EXCEPT !.resumed = TRUE])
                      ELSE [child EXCEPT !.resumed = TRUE]
          /\ handles' = handles \ {"hThread"}
          /\ hc' = Handle_drop(hc, {ThreadHandle} \cup StdioHandles
                                    \cup (IF release(guard).drops
                                          THEN {ProcessHandle} ELSE {}))
          /\ guard' = release(guard).guard
          /\ childObj' = [state |-> "live", process |-> release(guard).handle]
          /\ ret' = [kind |-> "Ok", err |-> OsError(0)]
          /\ log' = Append(log, Ev("resume", 0))
          /\ pc' = "done"
          /\ UNCHANGED <<tgtVars, code, thr, injLastError>>
    /\ UNCHANGED <<heapNext, tr, cmd, sys, idx, rm, inj>>
    /\ UNCHANGED apiVars

\* The caller drops the returned Child: only its Handle field has a Drop
\* (process.rs 53-65, handle.rs 42-48).
ChildDrop ==
    /\ pc = "done"
    /\ childObj.state = "live"
    /\ childObj' = [childObj EXCEPT !.state = "dropped"]
    /\ handles' = handles \ {childObj.process}
    /\ hc' = Handle_drop(hc, {ProcessHandle})
    /\ UNCHANGED <<tgtVars, tr, cmd, sys, pc, child, guard, ret, idx, code, rm, thr,
                   inj, injLastError, log>>
    /\ UNCHANGED apiVars

\* Child::into_raw_handle (process.rs 157-161): self.process.as_inner() is
\* the value returned, and self, taken by value, is dropped when the method
\* returns (handle.rs 42-48).
ChildIntoRawHandle ==
    /\ pc = "done"
    /\ childObj.state = "live"
    /\ childObj' = [childObj EXCEPT !.state = "into_raw"]
    /\ handles' = handles \ {childObj.process}
    /\ hc' = Handle_drop(hc, {ProcessHandle})
    /\ UNCHANGED <<tgtVars, tr, cmd, sys, pc, child, guard, ret, idx, code, rm, thr,
                   inj, injLastError, log>>
    /\ UNCHANGED apiVars

\* The caller drops the Command after spawn returned: each Module drops its
\* InitArg::Handle values (inject.rs 143-146, 223-226, handle.rs 42-48).
CommandDrop ==
    /\ pc = "done"
    /\ hc.command = "live"
    /\ hc' = [Handle_drop(hc, StoredHandles(cmd)) EXCEPT !.command = "dropped"]
    /\ UNCHANGED <<tgtVars, tr, cmd, sys, pc, child, guard, childObj, ret, idx, code,
                   rm, thr, inj, injLastError, handles, log>>
    /\ UNCHANGED apiVars

----------------------------------------------------------------------------
(* The remote thread: the thunk (thunk32.asm / thunk64.asm, by its         *)
(* contract) calling the module's initializer in the target.               *)

ThreadRuns == thr.state = "running" /\ child.alive
ParamLive == thr.param \in DOMAIN tmem

ThreadExit(c) == [thr EXCEPT !.state = "exited", !.pc = "done", !.exitCode = c]
SetParam(mem, f, v) == [mem EXCEPT ![thr.param] = [@ EXCEPT ![f] = v]]

\* LoadLibraryW(module_path); a null init_name ends the thunk with success.
ThunkLoad ==
    /\ ThreadRuns /\ ParamLive
    /\ thr.pc = "load"
    /\ \/ \E e \in TargetErrors :
            /\ tmem' = SetParam(tmem, "last_error", e)
            /\ thr' = [ThreadExit(ERROR_LOAD_FAILED) EXCEPT !.stored = e]
            /\ log' = Append(log, Ev("thread_exit", thr.k))
       \/ /\ tmem[thr.param].init_name = NULL
          /\ thr' = [ThreadExit(SUCCESS) EXCEPT !.loaded = TRUE]
          /\ log' = Append(log, Ev("thread_exit", thr.k))
          /\ UNCHANGED tmem
       \/ /\ tmem[thr.param].init_name # NULL
          /\ thr' = [thr EXCEPT !.pc = "lookup", !.loaded = TRUE]
          /\ UNCHANGED <<tmem, log>>
    /\ UNCHANGED <<regions, heapNext, tr, cmd, sys, pc, child, guard, childObj, ret,
                   idx, code, rm, inj, injLastError, handles, hc>>
    /\ UNCHANGED apiVars

\* GetProcAddress(module, init_name).
ThunkLookup ==
    /\ ThreadRuns /\ ParamLive
    /\ thr.pc = "lookup"
    /\ \/ \E e \in TargetErrors :
            /\ tmem' = SetParam(tmem, "last_error", e)
            /\ thr' = [ThreadExit(ERROR_INIT_NOT_FOUND) EXCEPT !.stored = e]
            /\ log' = Append(log, Ev("thread_exit", thr.k))
       \/ /\ thr' = [thr EXCEPT !.pc = "call"]
          /\ UNCHANGED <<tmem, log>>
    /\ UNCHANGED <<regions, heapNext, tr, cmd, sys, pc, child, guard, childObj, ret,
                   idx, code, rm, inj, injLastError, handles, hc>>
    /\ UNCHANGED apiVars

\* The initializer is called with &user_data and &user_len: a generated
\* trampoline of some signature.
ThunkCallInit ==
    /\ ThreadRuns /\ ParamLive
    /\ thr.pc = "call"
    /\ \E sig \in SigPool :
         tr' = TrCall("thunk", FALSE, sig, tmem[thr.param].user_data,
                      tmem[thr.param].user_len)
    /\ thr' = [thr EXCEPT !.pc = "in_init"]
    /\ UNCHANGED <<tgtVars, cmd, sys, pc, child, guard, childObj, ret, idx, code, rm,
                   inj, injLastError, handles, hc, log>>
    /\ UNCHANGED apiVars

\* The trampoline returned: zero is init failed, anything else success.
ThunkReturn ==
    /\ ThreadRuns /\ ParamLive
    /\ thr.pc = "in_init"
    /\ tr.pc = "returned"
    /\ tmem' = SetParam(SetParam(tmem, "user_data", tr.data), "user_len", tr.size)
    /\ thr' = ThreadExit(IF tr.ret = 0 THEN ERROR_INIT_FAILED ELSE SUCCESS)
    /\ tr' = [tr EXCEPT !.pc = "idle"]
    /\ log' = Append(log, Ev("thread_exit", thr.k))
    /\ UNCHANGED <<regions, heapNext, cmd, sys, pc, child, guard, childObj, ret, idx,
                   code, rm, inj, injLastError, handles, hc>>
    /\ UNCHANGED apiVars

\* An initializer that was not generated by initializer!: it returns what
\* it likes and leaves in the two fields what it likes.
ForeignInit ==
    /\ ThreadRuns /\ ParamLive
    /\ thr.pc = "call"
    /\ \/ \E code_ \in {SUCCESS, ERROR_INIT_FAILED} :
            /\ thr' = ThreadExit(code_)
            /\ UNCHANGED tgtVars
       \/ \E junk \in {<<9, 9, 9>>, write_be(7, 4), write_be(0, 4) \o <<1>>} :
            /\ thr' = ThreadExit(ERROR_INIT_FAILED)
            /\ tmem' = Store(SetParam(SetParam(tmem, "user_data",
                                                [base |-> heapNext, off |-> 0]),
                                       "user_len", Len(junk)),
                             [base |-> heapNext, off |-> 0], junk)
            /\ regions' = Store(regions, heapNext, [size |-> Len(junk), exec |-> FALSE])
            /\ heapNext' = heapNext + 1
       \/ /\ thr' = ThreadExit(ERROR_INIT_FAILED)
          /\ tmem' = SetParam(SetParam(tmem, "user_data", [base |-> heapNext, off |-> 8]),
                              "user_len", 4)
          /\ UNCHANGED <<regions, heapNext>>
    /\ log' = Append(log, Ev("thread_exit", thr.k))
    /\ UNCHANGED <<tr, cmd, sys, pc, child, guard, childObj, ret, idx, code, rm, inj,
                   injLastError, handles, hc>>
    /\ UNCHANGED apiVars

\* The thread ends outside the thunk (a fault, or its parameter block was
\* released under it): some other exit code.
ThreadCrash ==
    /\ ThreadRuns
    /\ \E c \in CrashCodes : thr' = ThreadExit(c)
    /\ log' = Append(log, Ev("thread_exit", thr.k))
    /\ UNCHANGED <<tgtVars, tr, cmd, sys, pc, child, guard, childObj, ret, idx, code,
                   rm, inj, injLastError, handles, hc>>
    /\ UNCHANGED apiVars

----------------------------------------------------------------------------
(* Spec: Command::spawn with its remote threads.                           *)

\* spawn_inner before CreateProcessW: nothing set up yet.
Su0 ==
    [pc |-> "none", cfg |-> <<>>, i |-> 0, std |-> <<>>, list |-> <<>>, cb |-> 0,
     passed |-> <<>>, ctab |-> {}, others |-> 0, set |-> <<>>,
     default_io |-> "none", pipes |-> <<>>, child |-> <<>>, closed |-> {}]

\* make_command_line has not been called.
Cl0 == [pc |-> "none", prog |-> <<>>, args |-> <<>>, out |-> <<>>]

\* No Command whose environment is being configured.
Env0 == [pc |-> "none"]

\* No Child.
Ch0 == [pc |-> "none"]

\* No module builder.
Hb0 == [pc |-> "none"]

\* get_thunk before any call: INIT is ONCE_INIT and THUNK the empty slice
\* (inject.rs 502-503).
Tk0 == [once |-> "incomplete", THUNK |-> <<>>, th |-> <<>>, code |-> <<>>, built |-> 0]

ExtIdle == tk = Tk0

\* The parts of the state the Command and Child operations below work on,
\* while none of them is running.
ApiIdle ==
    /\ ptab = <<>>
    /\ su = Su0
    /\ cl = Cl0
    /\ ev = Env0
    /\ ch = Ch0
    /\ hb = Hb0
    /\ ExtIdle

Init ==
    /\ ApiIdle
    /\ cmd \in [modules : SeqsUpTo(ModulePool, MaxModules)]
    /\ sys \in Systems
    /\ pc = "start"
    /\ tmem = NoMem
    /\ regions = NoMem
    /\ heapNext = 1
    /\ tr = TrIdle
    /\ child = Child0
    /\ guard = Guard0
    /\ childObj = ChildObj0
    /\ ret = Ret0
    /\ idx = 0
    /\ code = Code0
    /\ rm = Rm0
    /\ thr = Thr0
    /\ inj = Inj0
    /\ injLastError = 0
    /\ handles = {}
    /\ hc = Handle_new(Hc0, StoredHandles(cmd))
    /\ log = <<>>

Next ==
    \/ CreateProcessW
    \/ InjectorNew
    \/ InjectCopy
    \/ InjectCreateThread
    \/ InjectWait
    \/ InjectGetExitCode
    \/ InjectReadParam
    \/ InjectDispatch
    \/ SpawnAfterInject
    \/ ResumeThread
    \/ CommandDrop
    \/ ChildIntoRawHandle
    \/ ChildDrop
    \/ ThunkLoad
    \/ ThunkLookup
    \/ ThunkCallInit
    \/ ThunkReturn
    \/ ForeignInit
    \/ ThreadCrash
    \/ TrampEnter
    \/ TrampDeserialize
    \/ TrampCheckEnd
    \/ TrampInvoke
    \/ TrampSetResult

Spec == Init /\ [][Next]_vars

----------------------------------------------------------------------------
(* The trampoline on its own: every signature and every incoming buffer.   *)

ByteSamples == {0, 1, 2}
Sigs == SeqsUpTo(ArgTypes, MaxArgs)
\* Short buffers over ByteSamples, and the encodings of one and of two usize.
Bufs ==
    SeqsUpTo(ByteSamples, MaxBuf)
        \cup {serialize("usize", 516), serialize("usize", 516) \o <<1>>,
              serialize("usize", 516) \o serialize("usize", 7)}

ArgPtr == [base |-> 1, off |-> 0]

TrampInit ==
    /\ ApiIdle
    /\ \E buf \in Bufs :
         /\ tmem = (ArgPtr :> buf)
         /\ regions = (1 :> [size |-> Len(buf), exec |-> FALSE])
         /\ \E sig \in Sigs, outNull \in BOOLEAN :
              \/ tr = TrCall("direct", outNull, sig, ArgPtr, Len(buf))
              \/ buf = <<>> /\ tr = TrCall("direct", outNull, sig, NULL, 0)
    /\ heapNext = 2
    /\ cmd = [modules |-> <<>>]
    /\ sys = [arch |-> "x86_64", hostIntel |-> FALSE, wow64 |-> FALSE]
    /\ pc = "none"
    /\ child = Child0
    /\ guard = Guard0
    /\ childObj = ChildObj0
    /\ ret = Ret0
    /\ idx = 0
    /\ code = Code0
    /\ rm = Rm0
    /\ thr = Thr0
    /\ inj = Inj0
    /\ injLastError = 0
    /\ handles = {}
    /\ hc = Hc0
    /\ log = <<>>

TrampNext ==
    \/ TrampEnter
    \/ TrampDeserialize
    \/ TrampCheckEnd
    \/ TrampInvoke
    \/ TrampSetResult

TrampSpec == TrampInit /\ [][TrampNext]_vars

----------------------------------------------------------------------------
(* spawn_inner up to CreateProcessW (process.rs 444-474): the three stdio  *)
(* handles, the handle list of the attribute list, process creation.       *)

MaxOther == 1

\* The injector, the target and the trampoline while none of them runs.
InjectIdle ==
    /\ tmem = NoMem
    /\ regions = NoMem
    /\ heapNext = 1
    /\ tr = TrIdle
    /\ cmd = [modules |-> <<>>]
    /\ pc = "none"
    /\ child = Child0
    /\ guard = Guard0
    /\ childObj = ChildObj0
    /\ ret = Ret0
    /\ idx = 0
    /\ code = Code0
    /\ rm = Rm0
    /\ thr = Thr0
    /\ inj = Inj0
    /\ injLastError = 0
    /\ handles = {}
    /\ hc = Hc0
    /\ log = <<>>

injectVars == <<tmem, regions, heapNext, tr, spawnVars>>

StdioKinds == {"Raw", "MakePipe", "Inherit", "None"}

\* The parent's own standard handles (1, 2, 3) and a handle of the caller's
\* (4) that Stdio::from_raw_handle was given.
ParentHandles ==
    << [obj |-> <<"std", 1>>, inherit |-> TRUE],
       [obj |-> <<"std", 2>>, inherit |-> TRUE],
       [obj |-> <<"std", 3>>, inherit |-> TRUE],
       [obj |-> <<"raw">>, inherit |-> FALSE] >>

\* Handle::duplicate_from(handle, true) (handle.rs 18-28).
duplicate_from(tab, h) == Append(tab, [obj |-> tab[h].obj, inherit |-> TRUE])

\* Option::unwrap_or on a stream's explicit setting (process.rs 444-446).
unwrap_or(opt, default) == IF opt = "unset" THEN default ELSE opt

\* The end of a new pipe that is never duplicated for the child's output.
child_end_read(i, read, write) == read

\* process.rs 625-629: the end of the new pipe that is duplicated for the
\* child, the read end for STD_INPUT_HANDLE and the write end otherwise.
child_end(i, read, write) == IF i = 1 THEN read ELSE write

\* process.rs 631: the pipe setup returns, Some((read, write)) for MakePipe
\* and None (the empty tuple) otherwise.
setup_pipe(kind, tab) ==
    IF kind = "MakePipe" THEN <<Len(tab) + 1, Len(tab) + 2>> ELSE <<>>

\* The handles the locals of spawn_inner own: the three child-side Handles
\* and both ends of every pipe made (process.rs 448-450).
locals(s) ==
    {s.std[i] : i \in DOMAIN s.std}
        \cup UNION {{s.pipes[i][e] : e \in DOMAIN s.pipes[i]} : i \in DOMAIN s.pipes}

\* A closure that keeps the whole pair alive.
closure_drops_nothing(i, pipe) == {}

\* process.rs 495-497: the closures |(_, write)| and |(read, _)| take the
\* pair by value and move one end out; the other end is dropped with the
\* pair when the closure returns.
closure_drops(i, pipe) ==
    IF pipe = <<>> THEN {} ELSE {IF i = 1 THEN pipe[1] ELSE pipe[2]}

\* process.rs 495-497: the endpoint the Child keeps of a stream's pipe, the
\* write end of stdin and the read end of stdout and stderr; 0 is None.
parent_end(i, pipe) ==
    IF pipe = <<>> THEN 0 ELSE IF i = 1 THEN pipe[2] ELSE pipe[1]

\* StdioImp::setup (process.rs 621-674) for stream i: the handle table after
\* it; the child-side handle is the last one.
setup(kind, i, tab) ==
    CASE kind = "Raw" -> duplicate_from(tab, 4)
      [] kind = "MakePipe" ->
            LET ends == tab \o << [obj |-> <<"pipe", i, "r">>, inherit |-> FALSE],
                                  [obj |-> <<"pipe", i, "w">>, inherit |-> FALSE] >>
            IN  duplicate_from(ends, child_end(i, Len(tab) + 1, Len(tab) + 2))
      [] kind = "Inherit" -> duplicate_from(tab, i)
      [] kind = "None" -> Append(tab, [obj |-> <<"NUL">>, inherit |-> TRUE])

\* process.rs 448-450: the next stream is set up, or try! returns the error.
SetupStdio ==
    /\ su.pc = "stdio"
    /\ \/ /\ ptab' = setup(su.cfg[su.i], su.i, ptab)
          /\ su' = [su EXCEPT !.std = Append(su.std, Len(ptab')),
                              !.pipes = Append(su.pipes,
                                               setup_pipe(su.cfg[su.i], ptab)),
                              !.i = su.i + 1,
                              !.pc = IF su.i = 3 THEN "attrs" ELSE "stdio"]
       \/ /\ su' = [su EXCEPT !.pc = "failed", !.closed = locals(su)]
          /\ UNCHANGED ptab
    /\ UNCHANGED <<injectVars, cl, ev, ch, hb, extVars>>

\* Another thread of the parent, spawning on another Command, makes an
\* inheritable handle of its own.
ConcurrentSpawn ==
    /\ su.pc \in {"stdio", "attrs", "create"}
    /\ su.others < MaxOther
    /\ ptab' = Append(ptab, [obj |-> <<"other">>, inherit |-> TRUE])
    /\ su' = [su EXCEPT !.others = su.others + 1]
    /\ UNCHANGED <<injectVars, cl, ev, ch, hb, extVars>>

\* mem::size_of_val(&handles) with handles: &mut [RawHandle] (process.rs
\* 270): the size of the slice reference, a pointer and a length.
size_of_val_handles(s, list) == 2 * PtrSize(s)

\* process.rs 464-466: ProcThreadAtributeList::new and handles (267-277).
AttributeHandles ==
    /\ su.pc = "attrs"
    /\ \/ su' = [su EXCEPT !.pc = "create", !.list = su.std,
                           !.cb = size_of_val_handles(sys, su.std)]
       \/ su' = [su EXCEPT !.pc = "failed", !.closed = locals(su)]
    /\ UNCHANGED <<ptab, injectVars, cl, ev, ch, hb, extVars>>

\* The array UpdateProcThreadAttribute was given is a temporary of the
\* statement at 465; at CreateProcessW its memory holds what it held, or one
\* entry has been overwritten.
ListMemory(list) ==
    {list} \cup {[list EXCEPT ![k] = v] :
                    k \in 1..Len(list), v \in {0} \cup (1..Len(ptab))}

\* PROC_THREAD_ATTRIBUTE_HANDLE_LIST: cbSize bytes of handles.
HandleList(mem, cb, s) == SubSeq(mem, 1, cb \div PtrSize(s))

\* CreateProcessW with bInheritHandles = TRUE and the handle list (process.rs
\* 468-474): it fails unless every listed handle is an inheritable handle of
\* the parent; the child inherits the listed handles.
SetupCreateProcess ==
    /\ su.pc = "create"
    /\ \E mem \in ListMemory(su.list) :
         LET passed == HandleList(mem, su.cb, sys)
             valid == \A k \in 1..Len(passed) :
                         passed[k] \in 1..Len(ptab) /\ ptab[passed[k]].inherit
         IN  \/ /\ valid
                /\ su' = [su EXCEPT !.pc = "created", !.passed = passed,
                                    !.ctab = {passed[k] : k \in 1..Len(passed)}]
             \/ su' = [su EXCEPT !.pc = "failed", !.passed = passed,
                                 !.closed = locals(su)]
    /\ UNCHANGED <<ptab, injectVars, cl, ev, ch, hb, extVars>>

\* process.rs 491-501: the Child that spawn_inner returns, with the parent
\* ends of the pipes that were made; the closures drop the other ends and
\* the three child-side Handles are dropped at the end of the function.
ReturnChild ==
    /\ su.pc = "created"
    /\ su' = [su EXCEPT !.pc = "child",
                        !.child = [i \in 1..3 |-> parent_end(i, su.pipes[i])],
                        !.closed = {su.std[i] : i \in 1..3}
                            \cup UNION {closure_drops(i, su.pipes[i]) : i \in 1..3}]
    /\ UNCHANGED <<ptab, injectVars, cl, ev, ch, hb, extVars>>

\* process.rs 481-490: an injection or ResumeThread fails after the child
\* was created; the error return drops every local.
ReturnError ==
    /\ su.pc = "created"
    /\ su' = [su EXCEPT !.pc = "failed", !.closed = locals(su)]
    /\ UNCHANGED <<ptab, injectVars, cl, ev, ch, hb, extVars>>

\* Command::spawn and Command::status pass Inherit, Command::output passes
\* MakePipe (process.rs 504-529).
DefaultIo == {"Inherit", "MakePipe"}

SetupInit ==
    /\ InjectIdle
    /\ cl = Cl0 /\ ev = Env0 /\ ch = Ch0 /\ hb = Hb0 /\ ExtIdle
    /\ sys \in Systems
    /\ ptab = ParentHandles
    /\ \E set \in [1..3 -> StdioKinds \cup {"unset"}], default_io \in DefaultIo :
          su = [Su0 EXCEPT !.pc = "stdio", !.i = 1, !.set = set,
                           !.default_io = default_io,
                           !.cfg = [i \in 1..3 |-> unwrap_or(set[i], default_io)]]

SetupNext ==
    \/ SetupStdio
    \/ ConcurrentSpawn
    \/ AttributeHandles
    \/ SetupCreateProcess
    \/ ReturnChild
    \/ ReturnError

SetupSpec == SetupInit /\ [][SetupNext]_vars

\* ---------------------------------------------------------------------
\* make_command_line (process.rs): the command line handed to
\* CreateProcessW, as a vector of UTF-16 code units.
\* ---------------------------------------------------------------------

MaxTok == 3

QUOTE == 34
BACKSLASH == 92
SPACE == 32

\* The code units the tokens are drawn from: the three units the quoting
\* treats specially and an ordinary one, the letter a.
Letters == {97}
LetterA == CHOOSE x \in Letters : TRUE
Units == {QUOTE, BACKSLASH, SPACE} \cup Letters

\* C:\a b\x.exe and c:\path\ as code units.
ExampleProg == <<67, 58, 92, 97, 32, 98, 92, 120, 46, 101, 120, 101>>
ExampleArg == <<99, 58, 92, 112, 97, 116, 104, 92>>

Tokens == SeqsUpTo(Units, MaxTok)
FewTokens == {<<>>, <<BACKSLASH>>, <<LetterA, QUOTE>>, <<SPACE, LetterA>>}
Programs == {<<LetterA>>, <<LetterA, SPACE, LetterA>>, <<LetterA, BACKSLASH, LetterA>>}
ArgVectors ==
    {<<>>} \cup {<<t>> : t \in Tokens} \cup {<<t, u>> : t \in Tokens, u \in FewTokens}
    \cup {<<u, t>> : u \in FewTokens, t \in Tokens}

\* for _ in 0..n { cmd.push(x) }
RECURSIVE push_n(_, _, _)
push_n(v, x, n) == IF n = 0 THEN v ELSE push_n(Append(v, x), x, n - 1)

push_unit_unescaped(c, x) ==
    [cmd |-> Append(c.cmd, x),
     backslashes |-> IF x = BACKSLASH THEN c.backslashes + 1 ELSE 0]

\* The body of the loop over the code units of one token: c holds the
\* vector built so far and the count of backslashes just seen.
push_unit(c, x) ==
    IF x = BACKSLASH
    THEN [cmd |-> Append(c.cmd, x), backslashes |-> c.backslashes + 1]
    ELSE [cmd |-> Append(IF x = QUOTE
                         THEN push_n(c.cmd, BACKSLASH, c.backslashes + 1)
                         ELSE c.cmd, x),
          backslashes |-> 0]

RECURSIVE encode_wide_loop(_, _)
encode_wide_loop(c, arg) ==
    IF arg = <<>> THEN c ELSE encode_wide_loop(push_unit(c, Head(arg)), Tail(arg))

trailing_undoubled(c) == c.cmd

\* After the loop: the backslashes that end the token are pushed once more.
trailing(c) == push_n(c.cmd, BACKSLASH, c.backslashes)

append_arg(v, arg) ==
    Append(trailing(encode_wide_loop([cmd |-> Append(v, QUOTE), backslashes |-> 0], arg)),
           QUOTE)

RECURSIVE append_args(_, _)
append_args(v, args) ==
    IF args = <<>> THEN v
    ELSE append_args(append_arg(Append(v, SPACE), Head(args)), Tail(args))

make_command_line(prog, args) == Append(append_args(append_arg(<<>>, prog), args), 0)

\* spawn_inner builds the command line of the configured program and
\* arguments.
MakeCommandLine ==
    /\ cl.pc = "built"
    /\ cl' = [cl EXCEPT !.pc = "line", !.out = make_command_line(cl.prog, cl.args)]
    /\ UNCHANGED <<injectVars, sys, ptab, su, ev, ch, hb, extVars>>

\* Command::new(program) followed by arg / args.
CmdInit ==
    /\ InjectIdle
    /\ sys = [arch |-> "x86_64", hostIntel |-> FALSE, wow64 |-> FALSE]
    /\ ptab = <<>> /\ su = Su0 /\ ev = Env0 /\ ch = Ch0 /\ hb = Hb0 /\ ExtIdle
    /\ \E prog \in Programs \cup {ExampleProg},
          args \in ArgVectors \cup {<<ExampleArg>>} :
          cl = [pc |-> "built", prog |-> prog, args |-> args, out |-> <<>>]

CmdNext == MakeCommandLine

CmdSpec == CmdInit /\ [][CmdNext]_vars

\* ---------------------------------------------------------------------
\* The environment of a Command (process.rs): env, env_remove, env_clear
\* and the block make_envp builds for CreateProcessW.
\* ---------------------------------------------------------------------

MaxEnvOps == 3

EQUALS == 61

\* Keys over the code units of a (97), A (65), e with acute (233), E with
\* acute (201), and of a surrogate that stands alone (55296, not valid
\* UTF-16).
EnvKeys == {<<97>>, <<65>>, <<233>>, <<201>>, <<65, 97>>, <<55296>>}
EnvValues == {<<>>, <<LetterA>>}

\* The environments the calling process may have (env::vars_os), as sets
\* of pairs of key and value.
ParentEnvs == {{}, {<<<<65, 97>>, <<LetterA>>>>}, {<<<<233>>, <<>>>>}}

\* OsStr::to_string_lossy: what is not valid UTF-16 becomes U+FFFD.
to_string_lossy(k) ==
    [i \in 1..Len(k) |-> IF k[i] >= 55296 /\ k[i] <= 57343 THEN 65533 ELSE k[i]]

\* to_ascii_uppercase: a to z become A to Z, all else stays.
to_ascii_uppercase(k) ==
    [i \in 1..Len(k) |-> IF k[i] >= 97 /\ k[i] <= 122 THEN k[i] - 32 ELSE k[i]]

make_key(k) == to_ascii_uppercase(to_string_lossy(k))

\* HashMap::insert and HashMap::remove on a map held as a set of pairs.
insert(m, k, v) == {e \in m : e[1] # k} \cup {<<k, v>>}
remove(m, k) == {e \in m : e[1] # k}

NoEnv == [some |-> FALSE, map |-> {}]

\* The map after init_env: as it is when there is one, else the environment
\* of the calling process under make_key.
init_env(e, parent) ==
    IF e.some THEN e.map ELSE {<<make_key(p[1]), p[2]>> : p \in parent}

NoCall == [op |-> "none", key |-> <<>>, val |-> <<>>]

Configuring == ev.pc = "config" /\ ev.n < MaxEnvOps

EnvCall(k, v) ==
    /\ Configuring
    /\ ev' = [ev EXCEPT !.env = [some |-> TRUE,
                                 map |-> insert(init_env(ev.env, ev.parent), make_key(k), v)],
                        !.n = @ + 1,
                        !.last = [op |-> "env", key |-> k, val |-> v]]
    /\ UNCHANGED <<injectVars, sys, ptab, su, cl, ch, hb, extVars>>

Env == \E k \in EnvKeys, v \in EnvValues : EnvCall(k, v)

EnvRemoveCall(k) ==
    /\ Configuring
    /\ ev' = [ev EXCEPT !.env = [some |-> TRUE,
                                 map |-> remove(init_env(ev.env, ev.parent), make_key(k))],
                        !.n = @ + 1,
                        !.last = [op |-> "env_remove", key |-> k, val |-> <<>>]]
    /\ UNCHANGED <<injectVars, sys, ptab, su, cl, ch, hb, extVars>>

EnvRemove == \E k \in EnvKeys : EnvRemoveCall(k)

EnvClear ==
    /\ Configuring
    /\ ev' = [ev EXCEPT !.env = [some |-> TRUE, map |-> {}],
                        !.n = @ + 1,
                        !.last = [op |-> "env_clear", key |-> <<>>, val |-> <<>>]]
    /\ UNCHANGED <<injectVars, sys, ptab, su, cl, ch, hb, extVars>>

\* The sequences that hold every element of a set once: the orders in which
\* a HashMap may be iterated.
RECURSIVE Orders(_)
Orders(S) ==
    IF S = {} THEN {<<>>}
    ELSE UNION {{<<x>> \o o : o \in Orders(S \ {x})} : x \in S}

RECURSIVE pairs_block(_)
pairs_block(pairs) ==
    IF pairs = <<>> THEN <<>>
    ELSE Head(pairs)[1] \o <<EQUALS>> \o Head(pairs)[2] \o <<0>> \o pairs_block(Tail(pairs))

\* The block of a map iterated in the given order.
make_envp(pairs) == Append(pairs_block(pairs), 0)

\* spawn_inner builds the environment block: a null pointer when no
\* environment was configured.
MakeEnvp ==
    /\ ev.pc = "config"
    /\ IF ev.env.some
       THEN \E pairs \in Orders(ev.env.map) :
                ev' = [ev EXCEPT !.pc = "block", !.envp = "block", !.blk = make_envp(pairs)]
       ELSE ev' = [ev EXCEPT !.pc = "block", !.envp = "null", !.blk = <<>>]
    /\ UNCHANGED <<injectVars, sys, ptab, su, cl, ch, hb, extVars>>

\* Command::new(program): no environment configured.
EnvInit ==
    /\ InjectIdle
    /\ sys = [arch |-> "x86_64", hostIntel |-> FALSE, wow64 |-> FALSE]
    /\ ptab = <<>> /\ su = Su0 /\ cl = Cl0 /\ ch = Ch0 /\ hb = Hb0 /\ ExtIdle
    /\ \E parent \in ParentEnvs :
          ev = [pc |-> "config", env |-> NoEnv, parent |-> parent, n |-> 0,
                last |-> NoCall, envp |-> "none", blk |-> <<>>]

EnvNext == Env \/ EnvRemove \/ EnvClear \/ MakeEnvp

EnvSpec == EnvInit /\ [][EnvNext]_vars

\* ---------------------------------------------------------------------
\* Child::wait and Child::wait_with_output (process.rs), the child
\* process and the pipes of its captured streams.
\* ---------------------------------------------------------------------

MaxWaits == 3
MaxKills == 2
MaxWrite == 2
PipeCap == 1

ExitCodes == {0, 1}
Streams == {"stdout", "stderr"}

NoStatus == [some |-> FALSE, code |-> 0]
NoHelper == [pc |-> "none", res |-> "none", vec |-> <<>>]
NoOutput == [status |-> NoStatus, stdout |-> <<>>, stderr |-> <<>>]

\* A Child as spawn_inner returns it, with a process that runs.  stdin is
\* "open" when the parent holds the write end of a pipe to the child and
\* "none" when stdin was not captured; piped tells which output streams were
\* captured; conn tells for which of them the child holds the write end
\* (it holds those handles of the attribute list that it inherited); todo
\* is what the child will still write to each.
ChildOf(stdin, readsStdin, piped, conn, todo) ==
    [pc |-> "idle", caller |-> "none", status |-> NoStatus, stdin |-> stdin,
     proc |-> "running", exitCode |-> 0, readsStdin |-> readsStdin,
     n |-> 0, log |-> <<>>,
     piped |-> piped, conn |-> conn, todo |-> todo,
     written |-> [s \in Streams |-> <<>>], buf |-> [s \in Streams |-> <<>>],
     helper |-> [s \in Streams |-> NoHelper],
     output |-> NoOutput, ret |-> "none",
     kills |-> 0, terminates |-> 0, killed |-> "none"]

ChVars == <<injectVars, sys, ptab, su, cl, ev, hb, extVars>>

\* The parent holds the read end of the pipe of a stream until the helper
\* that owns it has finished.
NoReader(c, s) == c.helper[s].pc = "sent"

\* The child writes the next byte to a stream it holds: it blocks while the
\* pipe is full, and the write fails once no read end is left.  The k-th
\* byte written to a stream is k.
ChildWrite(s) ==
    /\ ch.pc # "none" /\ ch.proc = "running"
    /\ ch.todo[s] > 0 /\ ch.conn[s]
    /\ IF NoReader(ch, s)
       THEN ch' = [ch EXCEPT !.todo[s] = @ - 1]
       ELSE /\ Len(ch.buf[s]) < PipeCap
            /\ LET b == Len(ch.written[s]) + 1
               IN  ch' = [ch EXCEPT !.todo[s] = @ - 1,
                                    !.written[s] = Append(@, b),
                                    !.buf[s] = Append(@, b)]
    /\ UNCHANGED ChVars

ChildWrites == \E s \in Streams : ChildWrite(s)

\* The child exits once it has written everything; a child that reads its
\* standard input to the end does so only when the parent holds no write
\* end of it any more.  Its handles are closed with it.
ChildExit ==
    /\ ch.pc # "none" /\ ch.proc = "running"
    /\ \A s \in Streams : ch.todo[s] = 0
    /\ ch.readsStdin => ch.stdin # "open"
    /\ \E c \in ExitCodes : ch' = [ch EXCEPT !.proc = "exited", !.exitCode = c]
    /\ UNCHANGED ChVars

\* mem::drop(self.stdin.take())
take_stdin(stdin) == IF stdin = "open" THEN "closed" ELSE stdin

is_cached_never(c) == FALSE

\* if let Some(status) = self.status
is_cached(c) == c.status.some

\* Child::wait returns r to its caller: to the user, or into
\* wait_with_output, where try! returns an error at once.
Return(c, r) ==
    LET d == [c EXCEPT !.log = Append(@, [e |-> "ret", ok |-> r.ok, code |-> r.code,
                                          stdin |-> c.stdin])]
    IN  IF c.caller = "user" THEN [d EXCEPT !.pc = "idle"]
        ELSE IF r.ok THEN [d EXCEPT !.pc = "recv_stdout", !.output.status = c.status]
        ELSE [d EXCEPT !.pc = "returned", !.ret = "err"]

Event(c, e) == [c EXCEPT !.log = Append(@, [e |-> e, ok |-> FALSE, code |-> 0,
                                            stdin |-> c.stdin])]

\* The user calls child.wait().
CallWait ==
    /\ ch.pc = "idle" /\ ch.n < MaxWaits
    /\ ch' = [Event(ch, "call") EXCEPT !.pc = "wait", !.caller = "user", !.n = @ + 1]
    /\ UNCHANGED ChVars

\* Child::wait up to the wait of the operating system: the cached status
\* is returned, else the parent's end of stdin is dropped.
WaitEnter ==
    /\ ch.pc = "wait"
    /\ IF is_cached(ch)
       THEN ch' = Return(ch, [ok |-> TRUE, code |-> ch.status.code])
       ELSE ch' = [ch EXCEPT !.stdin = take_stdin(@), !.pc = "os_wait"]
    /\ UNCHANGED ChVars

\* self.process.wait(): WaitForSingleObject returns when the process has
\* exited.
ProcessWait ==
    /\ ch.pc = "os_wait"
    /\ ch.proc = "exited"
    /\ ch' = [Event(ch, "os_wait") EXCEPT !.pc = "query"]
    /\ UNCHANGED ChVars

\* WaitForSingleObject fails with WAIT_FAILED, and try! returns the error.
ProcessWaitFails ==
    /\ ch.pc = "os_wait"
    /\ ch' = Return(Event(ch, "os_wait"), [ok |-> FALSE, code |-> 0])
    /\ UNCHANGED ChVars

\* GetExitCodeProcess: the status is cached and returned.
GetExitCodeProcess ==
    /\ ch.pc = "query"
    /\ LET c == [Event(ch, "query") EXCEPT
                     !.status = [some |-> TRUE, code |-> ch.exitCode]]
       IN  ch' = Return(c, [ok |-> TRUE, code |-> ch.exitCode])
    /\ UNCHANGED ChVars

\* GetExitCodeProcess fails: the error is returned and nothing is cached.
GetExitCodeProcessFails ==
    /\ ch.pc = "query"
    /\ ch' = Return(Event(ch, "query"), [ok |-> FALSE, code |-> 0])
    /\ UNCHANGED ChVars

is_some_never(status) == FALSE

\* self.status.is_some()
is_some(status) == status.some

\* TerminateProcess(self.process, 1): a running process exits with code 1
\* and the call returns Ok; the call can fail, and does so for a process
\* that has exited already.
TerminateProcess(c) ==
    LET d == [c EXCEPT !.terminates = @ + 1]
    IN  {[d EXCEPT !.killed = "Os"]} \cup
        IF c.proc = "running"
        THEN {[d EXCEPT !.killed = "Ok", !.proc = "exited", !.exitCode = 1]}
        ELSE {}

\* Child::kill (process.rs 68-79), called between two waits: InvalidInput
\* when a status is cached, else the result of TerminateProcess.
kill ==
    /\ ch.pc = "idle" /\ ch.kills < MaxKills
    /\ LET c == [ch EXCEPT !.kills = @ + 1]
       IN  IF is_some(c.status)
           THEN ch' = [c EXCEPT !.killed = "InvalidInput"]
           ELSE ch' \in TerminateProcess(c)
    /\ UNCHANGED ChVars

\* read(stream): a helper thread that reads the stream to its end when it
\* was captured, else the result Ok(empty) sent at once.
read_stream(piped) ==
    IF piped THEN [pc |-> "reading", res |-> "none", vec |-> <<>>]
    ELSE [pc |-> "sent", res |-> "ok", vec |-> <<>>]

\* wait_with_output up to its call of wait: stdin is dropped and the two
\* helpers are started.
WaitWithOutput ==
    /\ ch.pc = "idle" /\ ch.n = 0
    /\ ch' = [ch EXCEPT !.stdin = take_stdin(@),
                        !.helper = [s \in Streams |-> read_stream(ch.piped[s])],
                        !.pc = "wait", !.caller = "wait_with_output", !.n = 1]
    /\ UNCHANGED ChVars

\* read_to_end of a helper: a read takes some of what the pipe holds.
HelperRead(s) ==
    /\ ch.helper[s].pc = "reading"
    /\ \E k \in 1..Len(ch.buf[s]) :
          ch' = [ch EXCEPT !.helper[s].vec = @ \o Take(ch.buf[s], k),
                           !.buf[s] = Drop(@, k)]
    /\ UNCHANGED ChVars

HelperReads == \E s \in Streams : HelperRead(s)

\* No process holds a write end of the pipe of the stream: the parent
\* dropped its own in spawn_inner.
NoWriter(c, s) == ~(c.conn[s] /\ c.proc = "running")

\* A read of the drained pipe that no writer holds reports the end, and
\* the helper sends Ok(vec).
HelperEnd(s) ==
    /\ ch.helper[s].pc = "reading"
    /\ ch.buf[s] = <<>> /\ NoWriter(ch, s)
    /\ ch' = [ch EXCEPT !.helper[s].pc = "sent", !.helper[s].res = "ok"]
    /\ UNCHANGED ChVars

HelperEnds == \E s \in Streams : HelperEnd(s)

\* A read fails, and the helper sends the error.
HelperFail(s) ==
    /\ ch.helper[s].pc = "reading"
    /\ ch' = [ch EXCEPT !.helper[s].pc = "sent", !.helper[s].res = "err"]
    /\ UNCHANGED ChVars

HelperFails == \E s \in Streams : HelperFail(s)

unwrap_or_else_partial(h) == h.vec

\* recv().unwrap().unwrap_or_else(|_| Vec::new())
unwrap_or_else(h) == IF h.res = "ok" THEN h.vec ELSE <<>>

\* stdout.recv(): blocks until the helper has sent.
RecvStdout ==
    /\ ch.pc = "recv_stdout"
    /\ ch.helper["stdout"].pc = "sent"
    /\ ch' = [ch EXCEPT !.output.stdout = unwrap_or_else(ch.helper["stdout"]),
                        !.pc = "recv_stderr"]
    /\ UNCHANGED ChVars

\* stderr.recv(), and wait_with_output returns the Output.
RecvStderr ==
    /\ ch.pc = "recv_stderr"
    /\ ch.helper["stderr"].pc = "sent"
    /\ ch' = [ch EXCEPT !.output.stderr = unwrap_or_else(ch.helper["stderr"]),
                        !.pc = "returned", !.ret = "ok"]
    /\ UNCHANGED ChVars

ChIdle ==
    /\ InjectIdle
    /\ sys = [arch |-> "x86_64", hostIntel |-> FALSE, wow64 |-> FALSE]
    /\ ptab = <<>> /\ su = Su0 /\ cl = Cl0 /\ ev = Env0 /\ hb = Hb0 /\ ExtIdle

NothingPiped == [s \in Streams |-> FALSE]
NothingToWrite == [s \in Streams |-> 0]

\* A spawned child none of whose output streams matters.
WaitInit ==
    /\ ChIdle
    /\ \E stdin \in {"open", "none"}, readsStdin \in BOOLEAN :
          ch = ChildOf(stdin, readsStdin, NothingPiped, NothingPiped, NothingToWrite)

WaitNext ==
    \/ CallWait \/ WaitEnter \/ ProcessWait \/ ProcessWaitFails
    \/ GetExitCodeProcess \/ GetExitCodeProcessFails \/ ChildExit
    \/ kill

WaitSpec == WaitInit /\ [][WaitNext]_vars

\* A spawned child with any of its streams captured, which writes up to
\* MaxWrite bytes to each captured stream it holds.
OutputInit ==
    /\ ChIdle
    /\ \E stdin \in {"open", "none"}, readsStdin \in BOOLEAN,
          piped \in [Streams -> BOOLEAN], conn \in [Streams -> BOOLEAN],
          todo \in [Streams -> 0..MaxWrite] :
          /\ \A s \in Streams : conn[s] => piped[s]
          /\ \A s \in Streams : todo[s] > 0 => conn[s]
          /\ ch = ChildOf(stdin, readsStdin, piped, conn, todo)

\* The steps that need no call of the operating system to fail.
OutputRuns ==
    \/ WaitWithOutput \/ WaitEnter \/ ProcessWait \/ GetExitCodeProcess
    \/ ChildWrites \/ ChildExit
    \/ HelperReads \/ HelperEnds
    \/ RecvStdout \/ RecvStderr

OutputNext == OutputRuns \/ ProcessWaitFails \/ GetExitCodeProcessFails \/ HelperFails

\* The threads of the parent and the child process are scheduled: what can
\* run does run.  No call is bound to fail.
OutputSpec == OutputInit /\ [][OutputNext]_vars /\ WF_vars(OutputRuns)

\* ---------------------------------------------------------------------
\* ModuleBuilderWithInit::arg and handle (inject.rs 182-218), the
\* argument stream of Module::copy_to_process, and the Shared arguments the
\* initializer reads from it (handle.rs 101-117).
\* ---------------------------------------------------------------------

MaxInitArgs == 3

\* The handles of the caller: two files, at the handle values 1 and 2.
CallerHandles ==
    << [obj |-> <<"file", 1>>, inherit |-> FALSE],
       [obj |-> <<"file", 2>>, inherit |-> FALSE] >>
Caller == 1..Len(CallerHandles)

Closed == [obj |-> <<"closed">>, inherit |-> FALSE]
IsOpen(tab, h) == tab[h] # Closed

\* The values arg is called with: their types and what serde::serialize
\* gives for them.
Blobs == { [ty |-> "u8", data |-> serialize("u8", 1)],
           [ty |-> "u16", data |-> serialize("u16", 2)] }

HbVars == <<injectVars, su, cl, ev, ch, extVars>>

push_front(args, arg) == <<arg>> \o args

\* args.push(arg)
push(args, arg) == Append(args, arg)

\* ModuleBuilderWithInit::arg: the serialized value is pushed.
BuilderArgCall(b) ==
    /\ hb.pc = "build" /\ Len(hb.args) < MaxInitArgs
    /\ hb' = [hb EXCEPT !.args = push(@, Serialized(b.data)),
                        !.calls = Append(@, [kind |-> "arg", ty |-> b.ty, data |-> b.data,
                                             h |-> 0, obj |-> <<>>])]
    /\ UNCHANGED <<ptab, sys, HbVars>>

BuilderArg == \E b \in Blobs : BuilderArgCall(b)

held_raw(tab, h) == h

\* Handle::duplicate_from(handle.as_raw_handle(), false): the handle the
\* module holds is a new one of the injecting process.
held(tab, h) == Len(tab) + 1

\* ModuleBuilderWithInit::handle: a duplicate of the handle that does not
\* inherit is pushed.
BuilderHandleCall(h) ==
    /\ hb.pc = "build" /\ Len(hb.args) < MaxInitArgs
    /\ IsOpen(ptab, h)
    /\ ptab' = Append(ptab, [obj |-> ptab[h].obj, inherit |-> FALSE])
    /\ hb' = [hb EXCEPT !.args = push(@, HandleArg(held(ptab, h))),
                        !.calls = Append(@, [kind |-> "handle", ty |-> "usize",
                                             data |-> <<>>, h |-> h, obj |-> ptab[h].obj])]
    /\ UNCHANGED <<sys, HbVars>>

BuilderHandle == \E h \in Caller : BuilderHandleCall(h)

\* DuplicateHandle fails in handle, which returns the error.
BuilderHandleFails ==
    /\ hb.pc = "build" /\ Len(hb.args) < MaxInitArgs
    /\ hb' = [hb EXCEPT !.pc = "failed"]
    /\ UNCHANGED <<ptab, sys, HbVars>>

\* ModuleBuilderWithInit::unwrap
BuilderUnwrap ==
    /\ hb.pc = "build"
    /\ hb' = [hb EXCEPT !.pc = "module"]
    /\ UNCHANGED <<ptab, sys, HbVars>>

\* The caller closes a handle of its own.
CallerCloses ==
    /\ hb.pc \in {"build", "module"}
    /\ \E h \in Caller :
          /\ IsOpen(ptab, h)
          /\ ptab' = [ptab EXCEPT ![h] = Closed]
    /\ UNCHANGED <<hb, sys, HbVars>>

\* The caller opens another object, which gets the value of a handle closed
\* before.
CallerOpens ==
    /\ hb.pc \in {"build", "module"}
    /\ \E h \in Caller :
          /\ ~IsOpen(ptab, h)
          /\ ptab' = [ptab EXCEPT ![h] = [obj |-> <<"other", h>>, inherit |-> FALSE]]
    /\ UNCHANGED <<hb, sys, HbVars>>

HandleArgsOf(args) == {k \in 1..Len(args) : args[k].kind = "Handle"}

\* Module::copy_to_process up to the argument stream: every handle the
\* module holds is duplicated into the target, whose handle table gets the
\* value DuplicateHandle stores for it; the stream and its length go into
\* the memory of the target.
CopyToProcess ==
    /\ hb.pc = "module"
    /\ \A k \in HandleArgsOf(hb.args) : IsOpen(ptab, hb.args[k].handle)
    /\ LET m == ModuleWithInit(<<100>>, <<105>>, hb.args)
           lay == copy_to_process(m, sys, 1)
       IN  hb' = [hb EXCEPT
                     !.pc = "copied",
                     !.ttab = {<<DupValue(hb.args[k].handle), ptab[hb.args[k].handle].obj>> :
                                 k \in HandleArgsOf(hb.args)},
                     !.stream = lay.args,
                     !.user_len = lay.param.user_len]
    /\ UNCHANGED <<ptab, sys, HbVars>>

\* DuplicateHandle into the target fails, and copy_to_process returns the
\* error.
CopyToProcessFails ==
    /\ hb.pc = "module"
    /\ HandleArgsOf(hb.args) # {}
    /\ hb' = [hb EXCEPT !.pc = "failed"]
    /\ UNCHANGED <<ptab, sys, HbVars>>

\* The values an initializer with parameters of the types tys reads from the
\* stream, as far as they decode.
RECURSIVE deserialize_all(_, _)
deserialize_all(tys, bs) ==
    IF tys = <<>> THEN <<>>
    ELSE LET r == deserialize_from(Head(tys), bs)
         IN  IF r.ok THEN <<r.val>> \o deserialize_all(Tail(tys), r.rest) ELSE <<>>

\* The initializer of the module runs in the target: its parameters are of
\* the types of the values given to arg, and Shared for each handle;
\* Shared::deserialize takes a usize as the raw handle.
InitializerReads ==
    /\ hb.pc = "copied"
    /\ hb' = [hb EXCEPT !.pc = "init",
                        !.recv = deserialize_all([k \in 1..Len(hb.calls) |-> hb.calls[k].ty],
                                                 hb.stream)]
    /\ UNCHANGED <<ptab, sys, HbVars>>

\* Module::new(path).init(name): a builder with no arguments yet, in an
\* injector of the bitness of its target.
HandleInit ==
    /\ InjectIdle
    /\ sys \in {s \in Systems : InjectorBits(s) = TargetBits(s)}
    /\ su = Su0 /\ cl = Cl0 /\ ev = Env0 /\ ch = Ch0 /\ ExtIdle
    /\ ptab = CallerHandles
    /\ hb = [pc |-> "build", args |-> <<>>, calls |-> <<>>, ttab |-> {},
             stream |-> <<>>, user_len |-> 0, recv |-> <<>>]

HandleNext ==
    \/ BuilderArg \/ BuilderHandle \/ BuilderHandleFails \/ BuilderUnwrap
    \/ CallerCloses \/ CallerOpens
    \/ CopyToProcess \/ CopyToProcessFails \/ InitializerReads

HandleSpec == HandleInit /\ [][HandleNext]_vars

----------------------------------------------------------------------------
(* get_thunk (inject.rs 501-548): the thunk image, built once per process  *)
(* under a Once, for any number of threads calling it.                     *)

MaxThreads == 2
MaxThunkCode == 8

ThunkThreads == 1..MaxThreads
TkVars == <<injectVars, ptab, su, cl, ev, ch, hb>>

\* include_bytes!(thunk.bin) of n bytes (inject.rs 508).
THUNK_CODE(n) == [i \in 1..n |-> 200 + i]

\* What GetProcAddress returns for LoadLibraryW, FreeLibrary, GetProcAddress
\* and GetLastError, in the order of the write_function calls (539-542).
FunctionAddrs == <<258, 772, 1286, 67305985>>

RECURSIVE write_le(_, _)
write_le(n, w) ==
    IF w = 0 THEN <<>> ELSE <<n % 256>> \o write_le(n \div 256, w - 1)

\* The address written with the most significant byte first.
write_native_be(function, s) == write_be(function, PtrSize(s))

\* write of write_function (inject.rs 511-519): write_u32 or write_u64 in
\* NativeEndian, which on x86 and x86_64 is little-endian.
write_native(function, s) == write_le(function, PtrSize(s))

\* inject.rs 535-537: zeros are pushed while the length is not a multiple of
\* size_of::<usize>().
RECURSIVE pad(_, _)
pad(vec, s) ==
    IF Len(vec) % PtrSize(s) > 0 THEN pad(Append(vec, 0), s) ELSE vec

\* A Once that lets every caller that finds it not complete run the closure.
call_once_unguarded(once) ==
    IF once = "complete" THEN "skip" ELSE "run"

\* INIT.call_once (inject.rs 505): the first caller runs the closure, callers
\* that arrive while it runs block until it is done, later callers skip it;
\* a closure that panicked poisons the Once and every later caller panics.
call_once(once) ==
    CASE once = "incomplete" -> "run"
      [] once = "running" -> "block"
      [] once = "complete" -> "skip"
      [] once = "poisoned" -> "panic"

NoThread == [pc |-> "idle", vec |-> <<>>, k |-> 0, ret |-> <<>>]
SetThread(t, r) == [tk EXCEPT !.th[t] = r]

\* A thread calls get_thunk and reaches INIT.call_once (505).
GetThunkCallOnce(t) ==
    /\ tk.th[t].pc = "idle"
    /\ LET c == call_once(tk.once)
       IN  /\ c # "block"
           /\ tk' = [tk EXCEPT
                       !.once = IF c = "run" THEN "running" ELSE @,
                       !.th[t].pc = CASE c = "run" -> "module"
                                      [] c = "skip" -> "read"
                                      [] c = "panic" -> "panicked"]
    /\ UNCHANGED TkVars

\* The closure panics (inject.rs 523, 529): the Once is poisoned and the
\* panic leaves get_thunk.
ClosurePanics(t) ==
    tk' = [tk EXCEPT !.once = "poisoned", !.th[t].pc = "panicked"]

\* inject.rs 527-537: GetModuleHandleW, then the code and its padding go
\* into a new Vec.
GetThunkCode(t) ==
    /\ tk.th[t].pc = "module"
    /\ \/ ClosurePanics(t)
       \/ tk' = [tk EXCEPT !.th[t].pc = "functions",
                           !.th[t].vec = pad(tk.code, sys),
                           !.th[t].k = 1]
    /\ UNCHANGED TkVars

\* inject.rs 539-542: one write_function call (510-525).
GetThunkFunction(t) ==
    /\ tk.th[t].pc = "functions"
    /\ LET me == tk.th[t]
       IN  \/ ClosurePanics(t)
           \/ tk' = [tk EXCEPT
                       !.th[t].vec = me.vec \o write_native(FunctionAddrs[me.k], sys),
                       !.th[t].k = me.k + 1,
                       !.th[t].pc = IF me.k = 4 THEN "publish" ELSE "functions"]
    /\ UNCHANGED TkVars

\* inject.rs 544: THUNK = Box::into_raw(vec.into_boxed_slice()); the closure
\* returns and the Once is complete.
GetThunkPublish(t) ==
    /\ tk.th[t].pc = "publish"
    /\ tk' = [tk EXCEPT !.THUNK = tk.th[t].vec,
                        !.built = tk.built + 1,
                        !.once = "complete",
                        !.th[t].pc = "read"]
    /\ UNCHANGED TkVars

\* inject.rs 547: &*THUNK is returned.
GetThunkReturn(t) ==
    /\ tk.th[t].pc = "read"
    /\ tk' = [tk EXCEPT !.th[t].pc = "returned", !.th[t].ret = tk.THUNK]
    /\ UNCHANGED TkVars

ThunkInit ==
    /\ InjectIdle
    /\ sys \in Systems
    /\ ptab = <<>> /\ su = Su0 /\ cl = Cl0 /\ ev = Env0 /\ ch = Ch0 /\ hb = Hb0
    /\ \E n \in 1..MaxThunkCode :
          tk = [Tk0 EXCEPT !.code = THUNK_CODE(n),
                           !.th = [t \in ThunkThreads |-> NoThread]]

ThunkNext ==
    \E t \in ThunkThreads :
        \/ GetThunkCallOnce(t)
        \/ GetThunkCode(t)
        \/ GetThunkFunction(t)
        \/ GetThunkPublish(t)
        \/ GetThunkReturn(t)

ThunkSpec == ThunkInit /\ [][ThunkNext]_vars

\* ---------------------------------------------------------------------
\* Properties of spawn (process.rs) and of Injector (inject.rs)
\* ---------------------------------------------------------------------

\* Positions of the log at which the step e of module k was taken.
At(e, k) == {i \in DOMAIN log : log[i] = Ev(e, k)}
Happened(e, k) == At(e, k) # {}
Precedes(a, ka, b, kb) == \E i \in At(a, ka) : \E j \in At(b, kb) : i < j
TargetSteps == {"alloc", "write", "thread_create"}

\* C1: once the child process exists, an error return of spawn leaves it
\* terminated: in no state has spawn returned Err while the child it created
\* is still alive, and the guard was dropped exactly once (one TerminateProcess).
C1_ErrorKillsChild ==
    (ret.kind = "Err" /\ child.exists) =>
        /\ ~child.alive
        /\ child.termReq = 1
        /\ guard.state = "dropped"
        /\ Happened("terminate", 0)

C1_Witness ==
    /\ ret.kind = "Err" /\ child.exists /\ ~child.alive
    /\ ~inj.result.ok /\ idx = 2

\* C2: the child is created suspended and stays suspended while spawn is
\* running; its primary thread is resumed only after the Injector was
\* constructed and inject returned success for every module of the command.
C2_ResumeAfterAllInjected ==
    /\ (child.exists /\ ret.kind # "Ok") => ~child.resumed
    /\ child.resumed =>
          /\ At("resume", 0) # {}
          /\ \A r \in At("resume", 0) :
                /\ \A k \in 1..Len(cmd.modules) :
                      \E i \in At("inject_ok", k) : i < r
                /\ cmd.modules # <<>> => \E i \in At("write", 0) : i < r
                /\ \A i \in DOMAIN log :
                      log[i].e \in TargetSteps \union {"inject_err"} => i < r
          /\ \A k \in 1..Len(cmd.modules) : ~Happened("inject_err", k)

C2_Witness ==
    /\ child.resumed /\ Len(cmd.modules) = 2
    /\ Precedes("inject_ok", 2, "resume", 0)

\* C3: the remote threads are started in the order of the modules, one at a
\* time: the thread of module k + 1 is created only after the thread of
\* module k has exited, its exit code has been read and inject returned
\* success for it; an exit code is read only after the thread exited; the
\* thread of module k is given module k's path; and after the first module
\* whose injection fails nothing more is allocated, written or started.
C3_ModulesInOrder ==
    /\ \A j \in DOMAIN log :
          log[j].e = "thread_create" =>
             /\ \A i \in 1..(j - 1) :
                   log[i].e = "thread_create" => log[i].k < log[j].k
             /\ log[j].k \in 1..Len(cmd.modules)
             /\ \A m \in 1..(log[j].k - 1) :
                   \E a \in At("thread_create", m) :
                   \E b \in At("thread_exit", m) :
                   \E c \in At("exit_code_read", m) :
                   \E d \in At("inject_ok", m) :
                       a < b /\ b < c /\ c < d /\ d < j
    /\ \A j \in DOMAIN log :
          log[j].e = "exit_code_read" =>
             \E i \in At("thread_exit", log[j].k) : i < j
    /\ \A i \in DOMAIN log :
          log[i].e = "inject_err" =>
             \A j \in DOMAIN log : j > i => log[j].e \notin TargetSteps
    /\ (thr.state = "running" /\ thr.pc = "load" /\ thr.param \in DOMAIN tmem
        /\ thr.k \in 1..Len(cmd.modules)) =>
          /\ tmem[thr.param].module_path \in DOMAIN tmem
          /\ tmem[tmem[thr.param].module_path] = cmd.modules[thr.k].path

C3_Witness ==
    /\ Happened("thread_create", 2)
    /\ Happened("inject_err", 2)

\* C4: when spawn returns Ok the guard was released without terminating the
\* child; the child stays alive when spawn returns and when the Child is
\* dropped later, and the Child owns the process handle the guard held.
C4_SuccessKeepsChild ==
    ret.kind = "Ok" =>
        /\ child.alive
        /\ child.termReq = 0
        /\ ~Happened("terminate", 0)
        /\ guard.state = "released"
        /\ childObj.process = guard.handle
        /\ childObj.process = "hProcess"
        /\ childObj.state = "live" => childObj.process \in handles

C4_Witness ==
    /\ ret.kind = "Ok" /\ childObj.state = "dropped"
    /\ child.alive /\ Len(cmd.modules) = 2

\* C5: against a target whose bitness differs from the injector's,
\* Injector::new fails before anything is allocated or written in the target
\* and before any remote thread: spawn returns the bitness error (or the
\* I/O error of a failed IsWow64Process query) and the log holds no step
\* taken in the target.  Whenever a step was taken in the target, the
\* bitness matched.
C5_BitnessBeforeAnyWrite ==
    /\ (TargetBits(sys) # InjectorBits(sys) /\ cmd.modules # <<>>
        /\ child.exists /\ pc \notin {"start", "injector_new"}) =>
          /\ ret.kind = "Err"
          /\ ret.err = into_io_Error(Bitness) \/ ret.err.kind = "Os"
          /\ \A i \in DOMAIN log : log[i].e \notin TargetSteps
          /\ DOMAIN regions = {} /\ thr.state = "none"
    /\ (\E i \in DOMAIN log : log[i].e \in TargetSteps) =>
          TargetBits(sys) = InjectorBits(sys)

C5_Witness ==
    /\ TargetBits(sys) # InjectorBits(sys)
    /\ ret.kind = "Err" /\ ret.err = into_io_Error(Bitness)
    /\ child.exists /\ ~child.alive

\* The state in which inject has matched on the exit code of its thread.
Dispatched == pc = "inject_ret" /\ inj.dispatched

\* The exit codes below ERROR_INIT_FAILED and the other values give, each,
\* one result: Ok, LoadFailed and InitNotFound of the number the thunk stored
\* in last_error in the target, UnexpectedExitCode of the code itself.
CodesButInitFailed ==
    LET c == inj.exit_code
        r == inj.result
    IN  /\ c = thr.exitCode
        /\ c = SUCCESS => r = InjOk
        /\ c = ERROR_LOAD_FAILED =>
              /\ r = InjFail(LoadFailed(thr.stored))
              /\ thr.stored \in TargetErrors
        /\ c = ERROR_INIT_NOT_FOUND =>
              /\ r = InjFail(InitNotFound(thr.stored))
              /\ thr.stored \in TargetErrors
        /\ c \notin {SUCCESS, ERROR_LOAD_FAILED, ERROR_INIT_NOT_FOUND,
                     ERROR_INIT_FAILED} =>
              r = InjFail(UnexpectedExitCode(c))

\* C6: after the thread exited and the parameter block was read back, 0
\* gives Ok, 1 gives LoadFailed of the number the thunk stored in last_error
\* in the target, 2 gives InitNotFound of the same field, 3 gives InitError,
\* any other code c gives UnexpectedExitCode(c).  For 3 the result is
\* InitError whenever the payload is absent or was written by a generated
\* trampoline and read; Deserialize appears only for a payload no trampoline
\* wrote, the I/O error only when reading the payload fails.
C6_ExitCodeDispatch ==
    Dispatched =>
        /\ CodesButInitFailed
        /\ inj.exit_code = ERROR_INIT_FAILED =>
              /\ ~inj.result.ok
              /\ \/ inj.result.err.kind = "InitError"
                 \/ /\ inj.result.err = Deserialize
                    /\ tr.caller # "thunk"
                    /\ inj.readAt = inj.rparam.user_data
                    /\ ~deserialize_InitError(inj.readBytes).ok
                 \/ /\ inj.result.err = Io(injLastError)
                    /\ inj.readAt = NULL
                    /\ ~payload_absent(inj.rparam)

C6_Witness ==
    /\ Dispatched
    /\ inj.exit_code = ERROR_INIT_FAILED
    /\ inj.result.err.kind = "InitError"
    /\ tr.caller = "thunk"
    /\ idx = 2

C6_WitnessLoadFailed ==
    /\ Dispatched
    /\ inj.exit_code = ERROR_LOAD_FAILED
    /\ inj.result = InjFail(LoadFailed(thr.stored))
    /\ injLastError # thr.stored

\* C7: for exit code 3, a null user_data or a zero user_len gives
\* InitError(None); otherwise inject reads exactly user_len bytes at
\* user_data in the target and returns InitError(Some(e)) with e decoded from
\* them, the error the trampoline stored, or Deserialize when they do not
\* decode (the I/O error when the read itself fails).
C7_InitFailedPayload ==
    (Dispatched /\ inj.exit_code = ERROR_INIT_FAILED) =>
        LET p == inj.rparam
            r == inj.result
            d == deserialize_InitError(inj.readBytes)
        IN  /\ (p.user_data = NULL \/ p.user_len = 0) =>
                  /\ r = InjFail(InitErrorNone)
                  /\ inj.readAt = NULL /\ inj.readLen = 0
            /\ (p.user_data # NULL /\ p.user_len # 0) =>
                  \/ /\ inj.readAt = p.user_data
                     /\ inj.readLen = p.user_len
                     /\ Len(inj.readBytes) = p.user_len
                     /\ r = IF d.ok THEN InjFail(InitErrorSome(d.val))
                                    ELSE InjFail(Deserialize)
                  \/ /\ inj.readAt = NULL
                     /\ r = InjFail(Io(injLastError))
            /\ (tr.caller = "thunk" /\ tr.ret = 0 /\ r.err.some) =>
                  r.err.init = tr.result.err

C7_Witness ==
    /\ Dispatched /\ inj.exit_code = ERROR_INIT_FAILED
    /\ inj.result.err.kind = "InitError" /\ inj.result.err.some
    /\ inj.result.err.init.kind = "Argument"
    /\ tr.caller = "thunk"

C7_WitnessNone ==
    /\ Dispatched /\ inj.exit_code = ERROR_INIT_FAILED
    /\ inj.rparam.user_data # NULL /\ inj.rparam.user_len = 0
    /\ inj.result = InjFail(InitErrorNone)

\* C8: for a module without an initializer, inject returns Ok only when the
\* loader reported that the module was loaded, and whenever the loader
\* reported that it returns Ok (or the I/O error of a failed OS call of its
\* own).
C8_NoInitOkIffLoaded ==
    (pc = "inject_ret" /\ idx \in 1..Len(cmd.modules)
     /\ ~cmd.modules[idx].hasInit) =>
        /\ inj.result.ok => (thr.loaded /\ thr.state = "exited")
        /\ thr.loaded => (inj.result.ok \/ inj.result.err.kind = "Io")
        /\ (inj.dispatched /\ ~thr.loaded) =>
              inj.result.err.kind \in {"LoadFailed", "UnexpectedExitCode"}

C8_Witness ==
    /\ pc = "inject_ret" /\ idx = 2
    /\ ~cmd.modules[idx].hasInit
    /\ thr.loaded /\ inj.result.ok /\ inj.dispatched

\* ---------------------------------------------------------------------
\* Properties of the generated trampoline (init.rs)
\* ---------------------------------------------------------------------

\* The trampoline was called with non-null out-pointers and has returned.
Returns == tr.pc = "returned" /\ ~tr.outNull

\* C9: with non-null out-pointers the success path leaves *data null and
\* *size 0 and returns 1; every error path returns 0 and leaves null and 0,
\* or a buffer allocated during the call whose bytes decode to the InitError
\* that occurred; the incoming *data and *size do not survive the call.
C9_OutParameters ==
    Returns =>
        /\ tr.ret \in {0, 1}
        /\ tr.ret = 1 <=> tr.result.ok
        /\ tr.ret = 1 => (tr.data = NULL /\ tr.size = 0)
        /\ tr.ret = 0 =>
              \/ tr.data = NULL /\ tr.size = 0
              \/ /\ tr.data # NULL
                 /\ tr.data.base # tr.inData.base
                 /\ tr.data.base = heapNext - 1
                 /\ tr.data \in DOMAIN tmem
                 /\ tr.size = Len(tmem[tr.data])
                 /\ deserialize_InitError(ReadBytes(tmem, tr.data, tr.size))
                       = [ok |-> TRUE, val |-> tr.result.err]
        /\ tr.inData # NULL => tr.data # tr.inData

C9_Witness ==
    /\ Returns /\ tr.ret = 0
    /\ tr.inData # NULL /\ tr.data # NULL
    /\ tr.result.err.kind = "Panic" /\ tr.invoked = 1

C9_WitnessSuccess ==
    /\ Returns /\ tr.ret = 1
    /\ tr.inData # NULL /\ tr.inSize > 0
    /\ tr.data = NULL /\ tr.size = 0

\* The values of type ty that some part of buf encodes.
ValuesIn(ty, buf) ==
    LET w == Width(ty)
        read == {read_be(SubSeq(buf, i, i + w - 1)) : i \in 1..(Len(buf) - w + 1)}
    IN  IF ty = "bool" THEN read \cap {0, 1} ELSE read

\* buf is the encoding of a value of each type of sig, one after the other,
\* and nothing else.
RECURSIVE IsSerializationOf(_, _)
IsSerializationOf(sig, buf) ==
    IF sig = <<>> THEN buf = <<>>
    ELSE \E v \in ValuesIn(Head(sig), buf) :
            LET e == serialize(Head(sig), v)
            IN  /\ Len(e) <= Len(buf)
                /\ SubSeq(buf, 1, Len(e)) = e
                /\ IsSerializationOf(Tail(sig), SubSeq(buf, Len(e) + 1, Len(buf)))

\* C10: the trampoline for signature sig invokes the user function, once,
\* exactly when the incoming buffer is the serialization of an argument list
\* whose types are those of sig, and then returns 1 (unless the user
\* function itself unwinds); for every other buffer it does not invoke it,
\* returns 0 and the error is Argument or TooManyArguments.
C10_AcceptsExactlySerializations ==
    (Returns /\ tr.caller = "direct" /\ tr.inData # NULL) =>
        LET buf == tmem[tr.inData]
        IN  /\ Len(buf) = tr.inSize
            /\ tr.invoked \in {0, 1}
            /\ tr.invoked = 1 <=> IsSerializationOf(tr.sig, buf)
            /\ tr.invoked = 0 =>
                  /\ tr.ret = 0
                  /\ ~tr.result.ok
                  /\ tr.result.err.kind \in {"Argument", "TooManyArguments"}
            /\ (tr.invoked = 1 /\ ~tr.caught) => tr.ret = 1
            /\ tr.ret = 1 => (tr.invoked = 1 /\ ~tr.caught)

C10_Witness ==
    /\ Returns /\ tr.caller = "direct" /\ tr.inData # NULL
    /\ Len(tr.sig) = 2 /\ tr.invoked = 1 /\ tr.ret = 1
    /\ IsSerializationOf(tr.sig, tmem[tr.inData])

C10_WitnessTooMany ==
    /\ Returns /\ tr.caller = "direct" /\ tr.inData # NULL
    /\ Len(tr.sig) = 1 /\ tr.invoked = 0
    /\ tr.result.err = TooManyArguments

\* "<non-string panic>"
NonStringPanic ==
    <<60, 110, 111, 110, 45, 115, 116, 114, 105, 110, 103, 32, 112, 97, 110,
      105, 99, 62>>

\* What an unwind inside the trampoline leaves: it is caught, the call
\* returns 0 and the result is Panic(message); message is the payload's text
\* when the payload is a &str or a String, other otherwise.
PanicCaught(other) ==
    (Returns /\ tr.caught) =>
        /\ tr.ret = 0
        /\ tr.payload \in Payloads \cup {[type |-> "str", text |-> AssertMessage]}
        /\ tr.result = Err(Panic(IF tr.payload.type \in {"str", "String"}
                                 THEN tr.payload.text ELSE other))

\* C11 as stated: an unwind of argument decoding or of the user function is
\* caught and gives Panic(message), message being the payload when it is a
\* string and the literal "<non-string panic>" when it is not.
C11_AsStated == PanicCaught(NonStringPanic)

\* C11 amended: the same, with the literal "Box<Any>" for a payload that is
\* not a string.
C11_PanicMessage == PanicCaught(BoxAny)

C11_Witness ==
    /\ Returns /\ tr.caught /\ tr.invoked = 1
    /\ tr.payload.type = "other"
    /\ tr.result = Err(Panic(BoxAny))

\* ---------------------------------------------------------------------
\* Properties of the Command and Child operations (process.rs)
\* ---------------------------------------------------------------------

\* C12 as stated: the handle list passed to process creation holds exactly
\* the three child-side stdio handles, and the child inherits each of them
\* and no other handle of the parent.
C12_WhitelistIsTheThreeStdio ==
    su.pc = "created" =>
        /\ su.passed = su.std
        /\ su.ctab = {su.std[1], su.std[2], su.std[3]}

\* A spawn whose handle array was read back as it was written: the list
\* handed over ends after stdout, and the child has no stderr.
C12_Witness ==
    /\ su.pc = "created"
    /\ su.list = su.std /\ Len(su.std) = 3
    /\ su.passed = <<su.std[1], su.std[2]>>
    /\ su.std[3] \notin su.ctab
    /\ su.others = 1

\* The length of the run of backslashes a sequence of code units starts with.
RECURSIVE LeadingBackslashes(_)
LeadingBackslashes(t) ==
    IF t # <<>> /\ Head(t) = BACKSLASH THEN 1 + LeadingBackslashes(Tail(t)) ELSE 0

Backslashes(n) == [i \in 1..n |-> BACKSLASH]

\* The quoting rule stated run by run: n backslashes before a quote become
\* 2n+1, n backslashes that end the token become 2n, all else is verbatim.
RECURSIVE Escaped(_)
Escaped(t) ==
    IF t = <<>> THEN <<>>
    ELSE LET n == LeadingBackslashes(t)
             rest == Drop(t, n)
         IN  IF rest = <<>> THEN Backslashes(2 * n)
             ELSE IF Head(rest) = QUOTE
                  THEN Backslashes(2 * n + 1) \o <<QUOTE>> \o Escaped(Tail(rest))
                  ELSE Backslashes(n) \o <<Head(rest)>> \o Escaped(Tail(rest))

Quoted(t) == <<QUOTE>> \o Escaped(t) \o <<QUOTE>>

RECURSIVE JoinedBySpace(_)
JoinedBySpace(ts) ==
    IF Len(ts) = 1 THEN Quoted(ts[1])
    ELSE Quoted(ts[1]) \o <<SPACE>> \o JoinedBySpace(Tail(ts))

\* "C:\a b\x.exe" "c:\path\\"
ExampleLine ==
    <<34, 67, 58, 92, 97, 32, 98, 92, 120, 46, 101, 120, 101, 34, 32,
      34, 99, 58, 92, 112, 97, 116, 104, 92, 92, 34>>

\* C13: the command line built is the program and then each argument, each
\* wrapped in double quotes and separated by exactly one space, where a run
\* of n backslashes before a quote of the token is written as 2n+1
\* backslashes and the quote, a run of n backslashes ending the token as 2n
\* backslashes, and every other code unit verbatim (the vector ends with the
\* terminating zero unit); C:\a b\x.exe with the argument c:\path\ gives
\* "C:\a b\x.exe" "c:\path\\".
C13_CommandLineQuoting ==
    cl.pc = "line" =>
        /\ cl.out = JoinedBySpace(<<cl.prog>> \o cl.args) \o <<0>>
        /\ (cl.prog = ExampleProg /\ cl.args = <<ExampleArg>>)
               => cl.out = ExampleLine \o <<0>>

\* A built line of two tokens, the latter with a backslash before a quote
\* and a backslash at its end.
C13_Witness ==
    /\ cl.pc = "line"
    /\ cl.args = <<<<BACKSLASH, QUOTE, BACKSLASH>>>>
    /\ cl.out = <<QUOTE>> \o cl.prog \o <<QUOTE, SPACE, QUOTE>>
                \o Backslashes(3) \o <<QUOTE>> \o Backslashes(2) \o <<QUOTE, 0>>

C13_WitnessExample ==
    cl.pc = "line" /\ cl.prog = ExampleProg /\ cl.out = ExampleLine \o <<0>>

\* The argv convention of the platform: 2n backslashes and a quote are n
\* backslashes and the quote toggles the quoted mode, 2n+1 backslashes and
\* a quote are n backslashes and a literal quote, other backslashes are
\* literal, and a space outside quotes ends the token.  p holds the quoted
\* mode, the token being read, whether one is being read, and the tokens
\* read so far.
RECURSIVE Argv(_, _)
Argv(s, p) ==
    IF s = <<>> THEN (IF p.started THEN Append(p.out, p.cur) ELSE p.out)
    ELSE LET n == LeadingBackslashes(s)
             rest == Drop(s, n)
         IN  IF n > 0
             THEN IF rest # <<>> /\ Head(rest) = QUOTE
                  THEN IF n % 2 = 0
                       THEN Argv(rest, [p EXCEPT !.cur = @ \o Backslashes(n \div 2),
                                                 !.started = TRUE])
                       ELSE Argv(Tail(rest),
                                 [p EXCEPT !.cur = @ \o Backslashes(n \div 2) \o <<QUOTE>>,
                                           !.started = TRUE])
                  ELSE Argv(rest, [p EXCEPT !.cur = @ \o Backslashes(n), !.started = TRUE])
             ELSE IF Head(s) = QUOTE
                  THEN Argv(Tail(s), [p EXCEPT !.inQuotes = ~@, !.started = TRUE])
                  ELSE IF Head(s) = SPACE /\ ~p.inQuotes
                       THEN Argv(Tail(s),
                                 [inQuotes |-> FALSE, cur |-> <<>>, started |-> FALSE,
                                  out |-> IF p.started THEN Append(p.out, p.cur)
                                          ELSE p.out])
                       ELSE Argv(Tail(s), [p EXCEPT !.cur = Append(@, Head(s)),
                                                    !.started = TRUE])

\* The tokens the platform reads from a zero-terminated command line.
ParseArgv(line) ==
    Argv(Take(line, Len(line) - 1),
         [inQuotes |-> FALSE, cur |-> <<>>, started |-> FALSE, out |-> <<>>])

\* C14: parsing the command line built from a program and arguments with
\* the argv convention of the platform gives back exactly the program and
\* the arguments, in order.
C14_ParseRoundTrip ==
    cl.pc = "line" =>
        /\ cl.out # <<>> /\ cl.out[Len(cl.out)] = 0
        /\ ParseArgv(cl.out) = <<cl.prog>> \o cl.args

\* A built line whose arguments are an empty one and one with a space, a
\* quote and a closing backslash.
C14_Witness ==
    /\ cl.pc = "line"
    /\ cl.args = <<<<>>, <<SPACE, QUOTE, BACKSLASH>>>>
    /\ ParseArgv(cl.out) = <<cl.prog>> \o cl.args

\* The upper case of a code unit and of a key, and equality of keys
\* ignoring case.
UpperUnit(u) ==
    IF u >= 97 /\ u <= 122 THEN u - 32
    ELSE IF u = 233 THEN 201 ELSE u
Upper(k) == [i \in 1..Len(k) |-> UpperUnit(k[i])]
EqIgnoreCase(k1, k2) == Upper(k1) = Upper(k2)

\* C15: whatever env, env_remove and env_clear calls were made, the map
\* holds at most one entry per key ignoring case and every stored key is in
\* upper case; after env(k, v) every entry whose key equals k ignoring case
\* holds v, and after env_remove(k) no entry has a key equal to k ignoring
\* case.
C15_OneUpperCaseEntryPerKey ==
    ev.pc = "config" /\ ev.env.some =>
        /\ \A e1, e2 \in ev.env.map : EqIgnoreCase(e1[1], e2[1]) => e1 = e2
        /\ \A e \in ev.env.map : Upper(e[1]) = e[1]
        /\ ev.last.op = "env" =>
               \A e \in ev.env.map : EqIgnoreCase(e[1], ev.last.key) => e[2] = ev.last.val
        /\ ev.last.op = "env_remove" =>
               \A e \in ev.env.map : ~EqIgnoreCase(e[1], ev.last.key)

\* env of the small and then of the capital letter E with acute has left
\* two entries.
C15_Witness ==
    /\ ev.pc = "config" /\ ev.last.op = "env" /\ ev.last.key = <<201>>
    /\ {e[1] : e \in ev.env.map} = {<<233>>, <<201>>}

\* C16: the block of a configured map, the empty one included, is every
\* entry as KEY, '=', VALUE and a zero unit, then one more zero unit, and so
\* ends with two zero units; with no environment configured the block is
\* null.
C16_DoubleNullTerminated ==
    ev.pc = "block" =>
        IF ev.env.some
        THEN /\ ev.envp = "block"
             /\ \E pairs \in Orders(ev.env.map) :
                    ev.blk = pairs_block(pairs) \o <<0>>
             /\ Len(ev.blk) >= 2
             /\ ev.blk[Len(ev.blk)] = 0 /\ ev.blk[Len(ev.blk) - 1] = 0
        ELSE ev.envp = "null"

\* The block built after env_clear: a single zero unit.
C16_Witness ==
    ev.pc = "block" /\ ev.last.op = "env_clear" /\ ev.env.map = {} /\ ev.blk = <<0>>

\* C17: the status is cached exactly when a wait has returned Ok, with the
\* status returned; after a wait returned Ok(s) every later wait returns
\* Ok(s) and the process is neither waited on nor queried again; and the
\* parent's end of stdin is no longer open whenever the wait of the
\* operating system is reached.
C17_WaitCachesStatus ==
    ch.pc # "none" =>
        LET hist == ch.log
            OkRet(i) == hist[i].e = "ret" /\ hist[i].ok
        IN  /\ ch.status.some <=>
                   \E i \in 1..Len(hist) : OkRet(i) /\ hist[i].code = ch.status.code
            /\ ~ch.status.some => \A i \in 1..Len(hist) : ~OkRet(i)
            /\ \A i, j \in 1..Len(hist) :
                   (i < j /\ OkRet(i)) =>
                       /\ hist[j].e \in {"call", "ret"}
                       /\ hist[j].e = "ret" => (hist[j].ok /\ hist[j].code = hist[i].code)
            /\ \A i \in 1..Len(hist) :
                   hist[i].e \in {"os_wait", "query"} => hist[i].stdin # "open"

\* A wait that failed, then one that returned Ok(1) with stdin captured,
\* then another one that returned Ok(1).
C17_Witness ==
    /\ ch.pc = "idle" /\ ch.n = 3 /\ ch.stdin = "closed"
    /\ ch.status = [some |-> TRUE, code |-> 1]
    /\ \E i, j, k \in 1..Len(ch.log) :
          /\ i < j /\ j < k
          /\ ch.log[i].e = "ret" /\ ~ch.log[i].ok
          /\ ch.log[j].e = "ret" /\ ch.log[j].ok
          /\ ch.log[k].e = "ret" /\ ch.log[k].ok /\ ch.log[k].code = 1

ReturnedOk == ch.pc = "returned" /\ ch.ret = "ok"
HelpersDone ==
    ch.proc = "exited" /\ \A s \in Streams : ch.helper[s].pc = "sent"
Drained(out, s) == IF ch.helper[s].res = "ok" THEN out = ch.written[s] ELSE out = <<>>

Copied == hb.pc \in {"copied", "init"}

\* The handle values of the target that refer to an object.
TargetHandlesOf(obj) == {e[1] : e \in {x \in hb.ttab : x[2] = obj}}

\* The length of the part of the stream of the first k calls, when a handle
\* takes w bytes.
RECURSIVE StreamOffset(_, _)
StreamOffset(k, w) ==
    IF k = 0 THEN 0
    ELSE StreamOffset(k - 1, w)
           + (IF hb.calls[k].kind = "arg" THEN Len(hb.calls[k].data) ELSE w)

\* The stream is, call by call in the order of the calls, the serialized
\* value as it was given, or the value of a handle of the target to the
\* object of the call as an unsigned big-endian integer of w bytes; and
\* user_data_len is the length of it all.
StreamOfCalls(w) ==
    /\ Len(hb.stream) = StreamOffset(Len(hb.calls), w)
    /\ hb.user_len = Len(hb.stream)
    /\ \A k \in 1..Len(hb.calls) :
          LET part == SubSeq(hb.stream, StreamOffset(k - 1, w) + 1, StreamOffset(k, w))
          IN  IF hb.calls[k].kind = "arg" THEN part = hb.calls[k].data
              ELSE \E t \in TargetHandlesOf(hb.calls[k].obj) : part = write_be(t, w)

C20_SharedIsSameObject ==
    hb.pc = "init" =>
        /\ Len(hb.recv) = Len(hb.calls)
        /\ \A k \in 1..Len(hb.calls) :
              hb.calls[k].kind = "handle" => hb.recv[k] \in TargetHandlesOf(hb.calls[k].obj)

\* The initializer has received a handle to the file that handle(h) was
\* given, after the caller closed h and another object got its value.
C20_Witness ==
    /\ hb.pc = "init"
    /\ \E k \in 1..Len(hb.calls) :
          /\ hb.calls[k].kind = "handle"
          /\ IsOpen(ptab, hb.calls[k].h)
          /\ ptab[hb.calls[k].h].obj # hb.calls[k].obj
          /\ hb.recv[k] \in TargetHandlesOf(hb.calls[k].obj)

----------------------------------------------------------------------------
----------------------------------------------------------------------------
\* C22: no region of the target that a remote thread may still read is
\* released while that thread runs: the data region of module k is released
\* only after the thread of module k, if one was started, has exited, and the
\* code region only after every remote thread started before has exited.
C22_NoFreeUnderRunningThread ==
    \A j \in DOMAIN log :
        log[j].e = "free" =>
            \A c \in 1..(j - 1) :
                (/\ log[c].e = "thread_create"
                 /\ log[j].k \in {0, log[c].k}) =>
                    \E x \in At("thread_exit", log[c].k) : c < x /\ x < j

\* WaitForSingleObject on the remote thread failed: inject has returned the
\* error and released the data region, and the thread is still running on
\* the parameter block that was in it.
C22_Witness ==
    /\ pc = "inject_ret"
    /\ thr.state = "running" /\ child.alive
    /\ ~rm.live
    /\ thr.param \notin DOMAIN tmem
    /\ Happened("free", thr.k)
    /\ ~Happened("thread_exit", thr.k)

----------------------------------------------------------------------------
\* C23: every write into the region copy_to_process asked for ends inside
\* the size it asked for (path bytes, parameter block, initializer name and
\* argument bytes), the alignment padding before the parameter block
\* included.
C23_WritesInsideRequestedSize ==
    rm.live => rm.offset <= rm.size

\* A module with an initializer whose strings end at an offset that is not a
\* multiple of the parameter block's alignment: the block is written past
\* the size that was asked for.
C23_Witness ==
    /\ rm.live
    /\ idx \in 1..Len(cmd.modules)
    /\ cmd.modules[idx].hasInit
    /\ inj.param.off % AlignOfThreadParam(sys) = 0
    /\ inj.param.off + SizeOfThreadParam(sys) = rm.offset
    /\ rm.offset > rm.size
    /\ rm.size = copy_to_process(cmd.modules[idx], sys, rm.base).size

----------------------------------------------------------------------------
----------------------------------------------------------------------------
\* C25: after a successful copy_to_process the parameter block lies in the
\* call's read-write, non-executable region; module_path points at the
\* zero-terminated wide path at the start of that region; init_name and
\* user_data are null and user_len is 0 exactly when the module has no
\* initializer; otherwise init_name points at the zero-terminated name and
\* user_data, user_len delimit the argument stream, user_data being non-null
\* also for an empty stream; last_error is 0; and the block lies behind
\* everything its pointers refer to.
C25_ParameterBlock ==
    pc = "create_thread" =>
        LET m == cmd.modules[idx]
            b == tmem[inj.param]
            stream == serialized_args(m.args)
            EndOf(p, n) == p.off + n
        IN  /\ inj.param.base = rm.base
            /\ rm.base \in DOMAIN regions /\ ~regions[rm.base].exec
            /\ b.module_path = [base |-> rm.base, off |-> 0]
            /\ tmem[b.module_path] = m.path
            /\ m.path[Len(m.path)] = 0
            /\ inj.param.off >= EndOf(b.module_path, 2 * Len(m.path))
            /\ b.last_error = 0
            /\ (b.init_name = NULL /\ b.user_data = NULL /\ b.user_len = 0)
                  <=> ~m.hasInit
            /\ m.hasInit =>
                  /\ b.init_name.base = rm.base
                  /\ tmem[b.init_name] = m.init
                  /\ m.init[Len(m.init)] = 0
                  /\ b.user_data # NULL /\ b.user_data.base = rm.base
                  /\ b.user_len = Len(stream)
                  /\ stream # <<>> => tmem[b.user_data] = stream
                  /\ b.init_name.off >= EndOf(b.module_path, 2 * Len(m.path))
                  /\ b.user_data.off >= EndOf(b.init_name, Len(m.init))
                  /\ inj.param.off >= EndOf(b.user_data, b.user_len)

\* A module with an initializer and no arguments was copied: user_data is
\* not null and user_len is 0.
C25_Witness ==
    /\ pc = "create_thread"
    /\ cmd.modules[idx].hasInit
    /\ cmd.modules[idx].args = <<>>
    /\ tmem[inj.param].user_data # NULL
    /\ tmem[inj.param].user_len = 0
    /\ tmem[inj.param].init_name # NULL

----------------------------------------------------------------------------
ImageOf(t) == tk.th[t].ret
TableAt(n) == RoundUp(n, PtrSize(sys))

\* Byte b of v, counting from the least significant byte as byte 1.
RECURSIVE ByteOf(_, _)
ByteOf(v, b) == IF b = 1 THEN v % 256 ELSE ByteOf(v \div 256, b - 1)

\* C26: the image get_thunk returns is the code, zero bytes up to the next
\* multiple of the pointer size (none when the code length is one), then
\* the addresses of LoadLibraryW, FreeLibrary, GetProcAddress and
\* GetLastError in that order, each pointer-sized and little-endian; its
\* length is round_up(len(code), pointer size) + 4 * pointer size and the
\* table starts at round_up(len(code), pointer size).
C26_ThunkImageLayout ==
    \A t \in DOMAIN tk.th :
        tk.th[t].pc = "returned" =>
            LET img == ImageOf(t)
                n == Len(tk.code)
                P == PtrSize(sys)
            IN  /\ Len(img) = TableAt(n) + 4 * P
                /\ SubSeq(img, 1, n) = tk.code
                /\ \A i \in (n + 1)..TableAt(n) : img[i] = 0
                /\ n % P = 0 => TableAt(n) = n
                /\ \A f \in 1..4 : \A b \in 1..P :
                      img[TableAt(n) + (f - 1) * P + b]
                          = ByteOf(FunctionAddrs[f], b)

\* An image whose code needed padding was returned.
C26_Witness ==
    \E t \in DOMAIN tk.th :
        /\ tk.th[t].pc = "returned"
        /\ Len(tk.code) % PtrSize(sys) # 0
        /\ Len(ImageOf(t)) > Len(tk.code) + 4 * PtrSize(sys)

\* C27: however the calling threads interleave, the image is built at most
\* once; every call that returns yields the same, fully built image and
\* never the empty placeholder or a part of an image; and once published
\* the image is not changed.
C27_BuiltOnce ==
    /\ [](/\ tk.built <= 1
          /\ \A t \in DOMAIN tk.th :
                tk.th[t].pc = "returned" =>
                    /\ ImageOf(t) = tk.THUNK
                    /\ Len(ImageOf(t)) = TableAt(Len(tk.code)) + 4 * PtrSize(sys)
                    /\ tk.built = 1)
    /\ [][tk.THUNK # <<>> => tk.THUNK' = tk.THUNK]_vars

\* Two threads have returned from get_thunk, and the image was built by one
\* of them.
C27_Witness ==
    /\ tk.built = 1
    /\ \A t \in DOMAIN tk.th : tk.th[t].pc = "returned"
    /\ Cardinality(DOMAIN tk.th) >= 2

----------------------------------------------------------------------------
\* C28: every kernel handle wrapped in a Handle during spawn and inject is
\* closed exactly once: CloseHandle is never called twice on one of them nor
\* on a handle that was not made, and when spawn has returned the only
\* handles still open are the process handle while the Child that was handed
\* it lives and the handle arguments while the Command keeps its modules.
C28_ClosedExactlyOnce ==
    /\ hc.twice = {}
    /\ hc.closed \subseteq hc.opened
    /\ pc = "done" =>
          hc.opened \ hc.closed =
              (IF childObj.state = "live" THEN {ProcessHandle} ELSE {})
              \cup (IF hc.command = "live" THEN StoredHandles(cmd) ELSE {})

\* spawn returned Ok after two injections, one of a module with a handle
\* argument; the Child and the Command were dropped and every handle that was
\* made has been closed.
C28_Witness ==
    /\ pc = "done" /\ ret.kind = "Ok"
    /\ childObj.state = "dropped" /\ hc.command = "dropped"
    /\ {ProcessHandle, ThreadHandle, RemoteThreadHandle(1), RemoteThreadHandle(2)}
          \cup StdioHandles \subseteq hc.opened
    /\ StoredHandles(cmd) # {}
    /\ hc.closed = hc.opened

----------------------------------------------------------------------------
\* The declared arguments decoded one after the other from bs, starting
\* with argument k: the index of the first one that does not decode (0 if
\* all do), the values decoded before it and the bytes left.
RECURSIVE DecodeInOrder(_, _, _, _)
DecodeInOrder(sig, bs, k, vals) ==
    IF k > Len(sig) THEN [at |-> 0, vals |-> vals, rest |-> bs]
    ELSE LET r == deserialize_from(sig[k], bs)
         IN  IF r.ok THEN DecodeInOrder(sig, r.rest, k + 1, Append(vals, r.val))
             ELSE [at |-> k, vals |-> vals, rest |-> bs]

\* C29: the user function is invoked at most once per call, and only after
\* every declared argument was decoded, in the declared order, and the
\* buffer was found used up; when an argument fails to decode the error is
\* Argument with the name of the first argument that fails and no later
\* argument is decoded; when bytes remain after the last argument the error
\* is TooManyArguments; in both cases the user function is not invoked.
C29_InvokeAfterAllDecoded ==
    (tr.caller = "direct" /\ ~tr.outNull /\ tr.inData # NULL) =>
        LET d == DecodeInOrder(tr.sig, tmem[tr.inData], 1, <<>>)
        IN  /\ tr.invoked <= 1
            /\ Len(tr.args) <= Len(d.vals)
            /\ tr.args = SubSeq(d.vals, 1, Len(tr.args))
            /\ (tr.pc = "invoke" \/ tr.invoked = 1) =>
                  /\ d.at = 0 /\ d.rest = <<>>
                  /\ tr.args = d.vals /\ Len(tr.args) = Len(tr.sig)
            /\ tr.pc \in {"set_result", "returned"} =>
                  /\ d.at > 0 =>
                        /\ tr.invoked = 0
                        /\ ~tr.result.ok
                        /\ tr.result.err.kind = "Argument"
                        /\ tr.result.err.s1 = <<97, 48 + d.at>>
                        /\ Len(tr.args) = d.at - 1
                  /\ (d.at = 0 /\ d.rest # <<>>) =>
                        /\ tr.invoked = 0
                        /\ ~tr.result.ok
                        /\ tr.result.err = TooManyArguments
                  /\ (d.at = 0 /\ d.rest = <<>>) => tr.invoked = 1

\* The first of two declared arguments decoded and the second one did not:
\* the call returned Argument("a2", ..) without invoking the user function.
C29_Witness ==
    /\ tr.pc = "returned" /\ tr.caller = "direct" /\ ~tr.outNull
    /\ Len(tr.sig) = 2 /\ Len(tr.args) = 1
    /\ tr.invoked = 0
    /\ tr.result.err.kind = "Argument"
    /\ tr.result.err.s1 = <<97, 50>>

----------------------------------------------------------------------------
\* C30: a generated trampoline that returns 0 to the thunk has cleared both
\* out-parameters or replaced them by a buffer it allocated itself, never
\* left the incoming argument stream in them; so whenever inject decodes an
\* error payload after such an initializer (exit code 3, user_data not null,
\* user_len not 0), the bytes it reads are the error the trampoline wrote
\* into its own buffer, outside the data region the injector wrote.
C30_PayloadIsTrampolineBuffer ==
    /\ (tr.caller = "thunk" /\ tr.pc \in {"returned", "idle"} /\ tr.ret = 0) =>
          \/ tr.data = NULL /\ tr.size = 0
          \/ /\ tr.data # tr.inData
             /\ tr.data.base # rm.base
             /\ tr.size = Len(serialize_InitError(tr.result.err))
    /\ (/\ Dispatched
        /\ tr.caller = "thunk"
        /\ ReadsPayload(inj.exit_code, inj.rparam)) =>
          /\ tr.ret = 0
          /\ inj.rparam.user_data = tr.data
          /\ inj.rparam.user_len = tr.size
          /\ inj.rparam.user_data.base # rm.base
          /\ inj.readAt # NULL =>
                /\ inj.readAt = tr.data
                /\ inj.readBytes = serialize_InitError(tr.result.err)

\* A module with a non-empty argument stream whose generated initializer
\* failed: inject decoded the error from the trampoline's buffer.
C30_Witness ==
    /\ Dispatched
    /\ tr.caller = "thunk"
    /\ inj.exit_code = ERROR_INIT_FAILED
    /\ serialized_args(cmd.modules[idx].args) # <<>>
    /\ inj.readAt # NULL /\ inj.readAt.base # rm.base
    /\ inj.result.err.some
    /\ inj.readBytes # serialized_args(cmd.modules[idx].args)

----------------------------------------------------------------------------
\* The handles of the parent to an end of a pipe spawn_inner made.
PipeHandles == {h \in 1..Len(ptab) : ptab[h].obj[1] = "pipe"}

\* C31: when spawn_inner has returned, with a Child or with an error, the
\* parent has closed the three child-side stdio handles and, of every pipe
\* that was made, the end of the child's side (the read end of stdin, the
\* write end of stdout and stderr); the pipe handles it still holds are
\* exactly the endpoints of the returned Child, so no write end of stdout
\* or stderr stays open in the parent.
C31_OnlyChildEndpointsStayOpen ==
    su.pc \in {"child", "failed"} =>
        /\ \A i \in DOMAIN su.std : su.std[i] \in su.closed
        /\ \A i \in DOMAIN su.pipes :
              su.pipes[i] # <<>> =>
                  su.pipes[i][IF i = 1 THEN 1 ELSE 2] \in su.closed
        /\ PipeHandles \ su.closed =
              IF su.pc = "child" THEN {su.child[i] : i \in 1..3} \ {0} ELSE {}
        /\ \A h \in PipeHandles \ su.closed :
              ptab[h].obj[3] = (IF ptab[h].obj[2] = 1 THEN "w" ELSE "r")

\* A Child with all three streams piped was returned: six pipe handles and
\* three duplicates were made, and only the three endpoints of the Child
\* are open.
C31_Witness ==
    /\ su.pc = "child"
    /\ \A i \in 1..3 : su.child[i] # 0 /\ su.child[i] \notin su.closed
    /\ Cardinality(PipeHandles) = 9
    /\ Cardinality(PipeHandles \ su.closed) = 3

\* A spawn that made a pipe failed afterwards: no pipe handle is left open.
C31_WitnessError ==
    /\ su.pc = "failed"
    /\ PipeHandles # {}
    /\ PipeHandles \subseteq su.closed

----------------------------------------------------------------------------
\* C32: the raw handle that into_raw_handle returned is open when the call
\* returns: consuming the wrapper hands the kernel handle over to the caller
\* and does not close it.
C32_RawHandleStaysOpen ==
    childObj.state = "into_raw" =>
        /\ childObj.process \in handles
        /\ ProcessHandle \notin hc.closed

\* Child::into_raw_handle has returned the process handle, and CloseHandle
\* was called on it when the Child was dropped inside the call.
C32_Witness ==
    /\ childObj.state = "into_raw"
    /\ ret.kind = "Ok"
    /\ childObj.process \notin handles
    /\ ProcessHandle \in hc.closed
    /\ ProcessHandle \notin hc.twice

----------------------------------------------------------------------------
\* C33: a Command without modules never constructs an Injector: spawn makes
\* no bitness check, allocates and writes nothing in the child, starts no
\* remote thread and goes from creating the suspended child straight to
\* resuming it; whatever the bitness of the child, it fails only with the
\* error of CreateProcessW, of the stdio setup or of ResumeThread.
C33_NoModulesNoInjector ==
    cmd.modules = <<>> =>
        /\ pc \in {"start", "resume", "done"}
        /\ \A i \in DOMAIN log :
              log[i].e \in {"create_suspended", "resume", "terminate"}
        /\ ~code.live /\ ~rm.live
        /\ thr = Thr0 /\ inj = Inj0 /\ tr = TrIdle
        /\ tmem = NoMem /\ regions = NoMem /\ heapNext = 1
        /\ ret.kind = "Err" => ret.err.kind = "Os"
        /\ child.resumed => Precedes("create_suspended", 0, "resume", 0)

\* A 64-bit parent spawned a 32-bit child without modules, and spawn
\* returned Ok with the child resumed.
C33_Witness ==
    /\ cmd.modules = <<>>
    /\ InjectorBits(sys) # TargetBits(sys)
    /\ ret.kind = "Ok"
    /\ child.resumed /\ child.alive
    /\ log = <<Ev("create_suspended", 0), Ev("resume", 0)>>

----------------------------------------------------------------------------
\* C34: every injection failure during spawn reaches the caller as an
\* io::Error that keeps its cause: Io(e) is returned as e itself, every
\* other Error as an io::Error of kind Other that wraps that Error value; a
\* failure of Injector::new arrives the same way; and no spawn in which an
\* injection failed returns Ok.
C34_InjectionErrorsReachCaller ==
    /\ (pc = "done" /\ ~inj.result.ok) =>
          /\ ret.kind = "Err"
          /\ ret.err =
                IF inj.result.err.kind = "Io"
                THEN [kind |-> "Os", code |-> inj.result.err.code, inner |-> NoInjErr]
                ELSE [kind |-> "Other", code |-> 0, inner |-> inj.result.err]
    /\ (pc = "done" /\ child.exists /\ cmd.modules # <<>> /\ idx = 0) =>
          /\ ret.kind = "Err"
          /\ \/ ret.err.kind = "Os" /\ ret.err.inner = NoInjErr
             \/ ret.err = [kind |-> "Other", code |-> 0, inner |-> Bitness]
    /\ (\E i \in DOMAIN log : log[i].e = "inject_err") => ret.kind = "Err"
    /\ ret.kind = "Ok" =>
          /\ inj.result.ok
          /\ \A k \in 1..Len(cmd.modules) : Happened("inject_ok", k)

\* The second module failed to load: spawn returned an io::Error of kind
\* Other that wraps LoadFailed with the error number the thunk stored.
C34_Witness ==
    /\ pc = "done" /\ idx = 2
    /\ inj.result.err.kind = "LoadFailed"
    /\ ret.kind = "Err" /\ ret.err.kind = "Other"
    /\ ret.err.inner = inj.result.err
    /\ ret.err.inner.code \in TargetErrors

\* An inject call failed with Io(e): spawn returned e itself.
C34_WitnessIo ==
    /\ pc = "done" /\ ~inj.result.ok
    /\ inj.result.err.kind = "Io"
    /\ ret.kind = "Err" /\ ret.err = OsError(inj.result.err.code)

----------------------------------------------------------------------------
\* C35: a kill called while an exit status is cached returns the
\* InvalidInput error, issues no terminate request and leaves the cached
\* status as it was; a kill called while no status is cached issues exactly
\* one terminate request, returns what that request returned and caches no
\* status.
C35_KillAfterWait ==
    [][(ch.pc = "idle" /\ ch'.kills = ch.kills + 1) =>
          /\ ch'.status = ch.status
          /\ IF ch.status.some
             THEN /\ ch'.killed = "InvalidInput"
                  /\ ch'.terminates = ch.terminates
                  /\ ch'.proc = ch.proc /\ ch'.exitCode = ch.exitCode
             ELSE /\ ch'.killed \in {"Ok", "Os"}
                  /\ ch'.terminates = ch.terminates + 1]_vars

\* A wait cached the status 0 of a child that exited by itself, and the
\* kill after it returned InvalidInput with no terminate request made.
C35_Witness ==
    /\ ch.pc = "idle" /\ ch.status = [some |-> TRUE, code |-> 0]
    /\ ch.kills = 1 /\ ch.killed = "InvalidInput" /\ ch.terminates = 0

\* A kill before any wait ended the running child with one terminate
\* request; the wait after it cached the status 1, and a second kill was
\* refused.
C35_WitnessKilled ==
    /\ ch.pc = "idle" /\ ch.status = [some |-> TRUE, code |-> 1]
    /\ ch.kills = 2 /\ ch.killed = "InvalidInput" /\ ch.terminates = 1

============================================================================
